---- MODULE Spec2Model ----
(***************************************************************************)
(* State-machine model of the Sentinel360 risk core:                       *)
(*   core/risk_fusion.py   RiskFusionEngine  (trip registry, fusion)       *)
(*   core/route_anomaly.py RouteAnomalyDetector (per-trip corridor tracker)*)
(*   core/ml_inference.py  HybridMLModel.predict (score and tier)          *)
(*                                                                         *)
(* Scores are fixed-point integers in units of 1/10000 (Scale = 1.0), so   *)
(* 0.3 is 3000 and 0.60 is 6000.  Positions are planar (north, east)       *)
(* coordinates in metres; the clock is in seconds.                         *)
(***************************************************************************)
EXTENDS Integers, Sequences, FiniteSets, TLC

VARIABLES
    now,              \* reading of datetime.now().timestamp()
    google_api_key,   \* RiskFusionEngine.google_api_key is set (truthy)
    _HAS_GEO_DEPS,    \* googlemaps / shapely / pyproj are importable
    ml_model,         \* RiskFusionEngine.ml_model: fusion weights, feature names
    route_detectors,  \* RiskFusionEngine.route_detectors: trip id -> entry
    queryLog,         \* per trip: clock readings of the directions queries
    started,          \* ids for which start was called and end was not since
    lastCall,         \* the last call made on the engine and what it returned
    probe,            \* input handed to a pure function under test
    probed,           \* what the function returned for it
    threads           \* concurrent update calls on one tracker: thread -> frame

vars == <<now, google_api_key, _HAS_GEO_DEPS, ml_model, route_detectors, queryLog,
          started, lastCall, probe, probed, threads>>

----------------------------------------------------------------------------
(* Bounds of the model *)

MaxTicks == 2        \* the clock advances at most this many times
TickStep == 15       \* seconds per clock advance
MaxCrumbs == 2       \* fixes one tracker receives at most
MaxFleetCrumbs == 2  \* fixes held by the trackers of a fleet together, at most

TripIds == {"t1", "t2"}

----------------------------------------------------------------------------
(* Numeric helpers *)

Scale == 10000

Max(a, b) == IF a >= b THEN a ELSE b
Min(a, b) == IF a <= b THEN a ELSE b
Abs(a) == IF a < 0 THEN -a ELSE a

SeqToSet(q) == { q[i] : i \in 1..Len(q) }

\* float('inf'): larger than every distance and every threshold
Infinity == 1000000000

\* floor of the square root, for planar distances in metres
ISqrt(x) == CHOOSE r \in 0..2000 : r * r <= x /\ (r + 1) * (r + 1) > x

----------------------------------------------------------------------------
(* The world the trackers live in: four fixes on a 700 m square, two       *)
(* drivable routes and one route whose overview polyline is a single point *)

Origin == <<0, 0>>
Destination == <<0, 700>>
Centre == <<350, 350>>
Corner == <<700, 700>>

GpsFixes == {Origin, Centre, Corner}

PrimaryRoute == [summary |-> "N1", polyline |-> <<Origin, Destination>>]
AlternativeRoute ==
    [summary |-> "Ring", polyline |-> <<Origin, <<700, 0>>, Corner, Destination>>]
PointRoute == [summary |-> "Here", polyline |-> <<Destination>>]

\* What gmaps.directions can do: raise, return nothing, or return routes
ProviderResponses ==
    { [kind |-> "raise", routes |-> <<>>],
      [kind |-> "empty", routes |-> <<>>],
      [kind |-> "routes", routes |-> <<PrimaryRoute>>],
      [kind |-> "routes", routes |-> <<PrimaryRoute, AlternativeRoute>>],
      [kind |-> "routes", routes |-> <<PointRoute>>] }

----------------------------------------------------------------------------
(* RouteAnomalyDetector: geometry helpers *)

buffer_distance == 100

\* planar stand-in for the great-circle distance, metres
haversine_distance(p, q) ==
    IF p[1] = q[1] THEN Abs(p[2] - q[2])
    ELSE IF p[2] = q[2] THEN Abs(p[1] - q[1])
    ELSE ISqrt((p[1] - q[1]) * (p[1] - q[1]) + (p[2] - q[2]) * (p[2] - q[2]))

\* t = clamp(((p - a) . d) / (d . d), 0, 1); a + t d.  The division is exact for
\* the axis-aligned segments of the routes above.
_closest_point_on_segment(point, seg_start, seg_end) ==
    LET dx == seg_end[1] - seg_start[1]
        dy == seg_end[2] - seg_start[2]
        num == (point[1] - seg_start[1]) * dx + (point[2] - seg_start[2]) * dy
        den == dx * dx + dy * dy
    IN  IF dx = 0 /\ dy = 0 THEN seg_start
        ELSE IF num <= 0 THEN seg_start
        ELSE IF num >= den THEN seg_end
        ELSE <<seg_start[1] + (num * dx) \div den, seg_start[2] + (num * dy) \div den>>

SetMin(S) == CHOOSE m \in S : \A x \in S : m <= x

\* the 'distance' field of distance_from_route: inf for a polyline without segments
distance_from_route(current_pos, route_polyline) ==
    LET ds == { haversine_distance(current_pos,
                    _closest_point_on_segment(current_pos, route_polyline[i],
                                              route_polyline[i + 1])) :
                i \in 1..(Len(route_polyline) - 1) }
    IN  IF ds = {} THEN Infinity ELSE SetMin(ds)

\* LineString(...) of a one-point polyline raises inside _create_route_corridors
corridors_raise(rs) == \E i \in 1..Len(rs) : Len(rs[i].polyline) = 1

\* one buffered polygon per route, in route order
_create_route_corridors(rs) ==
    [i \in 1..Len(rs) |-> [line |-> rs[i].polyline, buffer |-> buffer_distance]]

\* corridor.contains(pt): strictly inside the buffer around the line
corridor_contains(corridor, pt) ==
    distance_from_route(pt, corridor.line) < corridor.buffer

\* containment tested against the primary corridor only
is_within_first_corridor(det, current_pos) ==
    IF det.route_corridors # <<>> /\ corridor_contains(det.route_corridors[1], current_pos)
    THEN 1 ELSE 0

\* index (from 1) of the first corridor containing the fix, 0 for (False, None)
is_within_any_corridor(det, current_pos) ==
    LET hits == { i \in 1..Len(det.route_corridors) :
                    corridor_contains(det.route_corridors[i], current_pos) }
    IN  IF hits = {} THEN 0 ELSE SetMin(hits)

\* compass bearing in degrees; atan2(0, 0) = 0.  Defined for the displacements
\* that occur between the fixes above (multiples of 45 degrees).
calculate_bearing(p1, p2) ==
    LET dn == p2[1] - p1[1]
        de == p2[2] - p1[2]
    IN  CASE dn = 0 /\ de = 0 -> 0
          [] dn > 0 /\ de = 0 -> 0
          [] dn > 0 /\ de = dn -> 45
          [] dn = 0 /\ de > 0 -> 90
          [] dn < 0 /\ de = -dn -> 135
          [] dn < 0 /\ de = 0 -> 180
          [] dn < 0 /\ de = dn -> 225
          [] dn = 0 /\ de < 0 -> 270
          [] dn > 0 /\ de = -dn -> 315

----------------------------------------------------------------------------
(* RouteAnomalyDetector: the tracker *)

RerouteInterval == 30

\* result of update; action "None" stands for a missing or None action
RouteResult(status, distance, adj, triggered, severity, action) ==
    [status |-> status, deviation_distance |-> distance, risk_adjustment |-> adj,
     triggered |-> triggered, severity |-> severity, action |-> action]

\* the ladder with the rungs for 10 and for 5 updates in the wrong order
_evaluate_deviation_reordered(distance, consecutive, wrong_direction) ==
    IF wrong_direction /\ distance > 300
    THEN RouteResult("WRONG_DIRECTION", distance, 6000, TRUE, "CRITICAL",
                     "ALERT_USER_IMMEDIATELY")
    ELSE IF distance > 200 /\ consecutive >= 10
    THEN RouteResult("HIGH_DEVIATION", distance, 2500, TRUE, "HIGH",
                     "CHECK_IN_WITH_USER")
    ELSE IF distance > 500 /\ consecutive >= 5
    THEN RouteResult("CRITICAL_DEVIATION", distance, 4000, TRUE, "CRITICAL",
                     "ALERT_USER_IMMEDIATELY")
    ELSE IF distance > 150 /\ consecutive >= 20
    THEN RouteResult("PROLONGED_DEVIATION", distance, 1500, TRUE, "MEDIUM", "MONITOR")
    ELSE RouteResult("MINOR_DEVIATION", distance, 500, FALSE, "LOW", "None")

\* the ordered ladder, most severe rung first
_evaluate_deviation(distance, consecutive, wrong_direction) ==
    IF wrong_direction /\ distance > 300
    THEN RouteResult("WRONG_DIRECTION", distance, 6000, TRUE, "CRITICAL",
                     "ALERT_USER_IMMEDIATELY")
    ELSE IF distance > 500 /\ consecutive >= 5
    THEN RouteResult("CRITICAL_DEVIATION", distance, 4000, TRUE, "CRITICAL",
                     "ALERT_USER_IMMEDIATELY")
    ELSE IF distance > 200 /\ consecutive >= 10
    THEN RouteResult("HIGH_DEVIATION", distance, 2500, TRUE, "HIGH",
                     "CHECK_IN_WITH_USER")
    ELSE IF distance > 150 /\ consecutive >= 20
    THEN RouteResult("PROLONGED_DEVIATION", distance, 1500, TRUE, "MEDIUM", "MONITOR")
    ELSE RouteResult("MINOR_DEVIATION", distance, 500, FALSE, "LOW", "None")

\* RouteAnomalyDetector.__init__ after _fetch_all_routes returned rs (which is
\* [] when the provider raised or returned nothing)
NewDetector(rs, t) ==
    [none |-> FALSE,
     routes |-> rs,
     route_corridors |-> _create_route_corridors(rs),
     last_reroute_check |-> t,
     gps_breadcrumbs |-> <<>>,
     deviation_events |-> <<>>,
     consecutive_deviations |-> 0]

\* the registry entry of a trip started without monitoring (None)
NoDetector ==
    [none |-> TRUE, routes |-> <<>>, route_corridors |-> <<>>,
     last_reroute_check |-> 0, gps_breadcrumbs |-> <<>>,
     deviation_events |-> <<>>, consecutive_deviations |-> 0]

_fetch_all_routes(resp) == IF resp.kind = "routes" THEN resp.routes ELSE <<>>

\* the rate limiter counting from the trip start instead of the last check
reroute_due_since_start(det, t) == ~(t < RerouteInterval)

\* does this call query the provider?
reroute_due(det, t) == ~(t - det.last_reroute_check < RerouteInterval)

\* the tracker after check_for_reroutes at clock reading t, the provider
\* answering resp if asked
check_for_reroutes(det, t, resp) ==
    IF ~reroute_due(det, t) THEN det
    ELSE IF resp.kind = "routes"
    THEN IF corridors_raise(resp.routes)
         THEN \* line 128 ran, line 129 raised, the handler fell through to 134
              [det EXCEPT !.routes = resp.routes, !.last_reroute_check = t]
         ELSE [det EXCEPT !.routes = resp.routes,
                          !.route_corridors = _create_route_corridors(resp.routes),
                          !.last_reroute_check = t]
    ELSE [det EXCEPT !.last_reroute_check = t]

\* smallest distance to any known route, inf when there is none
min_route_distance(det, current_gps) ==
    LET ds == { distance_from_route(current_gps, det.routes[i].polyline) :
                i \in 1..Len(det.routes) }
    IN  IF ds = {} THEN Infinity ELSE SetMin(ds)

\* a difference of exactly 90 degrees flagged as well
wrong_direction_inclusive(crumbs, current_gps) ==
    IF Len(crumbs) >= 2
    THEN LET bearing_dest == calculate_bearing(current_gps, Destination)
             heading == calculate_bearing(crumbs[Len(crumbs) - 1].position, current_gps)
             diff0 == Abs(bearing_dest - heading)
             diff == IF diff0 > 180 THEN 360 - diff0 ELSE diff0
         IN  diff >= 90
    ELSE FALSE

\* lines 219-226, crumbs being the history including the current fix
wrong_direction(crumbs, current_gps) ==
    IF Len(crumbs) >= 2
    THEN LET bearing_dest == calculate_bearing(current_gps, Destination)
             heading == calculate_bearing(crumbs[Len(crumbs) - 1].position, current_gps)
             diff0 == Abs(bearing_dest - heading)
             diff == IF diff0 > 180 THEN 360 - diff0 ELSE diff0
         IN  diff > 90
    ELSE FALSE

OnRouteResult(ridx) ==
    RouteResult(IF ridx = 1 THEN "ON_PRIMARY_ROUTE" ELSE "ON_ALTERNATIVE_ROUTE",
                0, 0, FALSE, "None", "None")

\* update logging a deviation event for every fix
update_logging_all(det, current_gps, timestamp, t, resp) ==
    LET d1 == [det EXCEPT !.gps_breadcrumbs =
                   Append(@, [position |-> current_gps, timestamp |-> timestamp])]
        d2 == check_for_reroutes(d1, t, resp)
        ridx == is_within_any_corridor(d2, current_gps)
        min_dist == min_route_distance(d2, current_gps)
        d3 == [d2 EXCEPT !.consecutive_deviations = @ + 1,
                         !.deviation_events =
                             Append(@, [timestamp |-> timestamp, distance |-> min_dist,
                                        position |-> current_gps])]
    IN  IF ridx # 0
        THEN [det |-> [d3 EXCEPT !.consecutive_deviations = 0],
              raised |-> ridx > Len(d2.routes),
              result |-> OnRouteResult(ridx)]
        ELSE [det |-> d3,
              raised |-> FALSE,
              result |-> _evaluate_deviation(min_dist, d3.consecutive_deviations,
                             wrong_direction(d3.gps_breadcrumbs, current_gps))]

\* update keeping the counter when the fix is inside a corridor
update_without_reset(det, current_gps, timestamp, t, resp) ==
    LET d1 == [det EXCEPT !.gps_breadcrumbs =
                   Append(@, [position |-> current_gps, timestamp |-> timestamp])]
        d2 == check_for_reroutes(d1, t, resp)
        ridx == is_within_any_corridor(d2, current_gps)
        min_dist == min_route_distance(d2, current_gps)
        d3 == [d2 EXCEPT !.consecutive_deviations = @ + 1,
                         !.deviation_events =
                             Append(@, [timestamp |-> timestamp, distance |-> min_dist,
                                        position |-> current_gps])]
    IN  IF ridx # 0
        THEN [det |-> d2,
              raised |-> ridx > Len(d2.routes),
              result |-> OnRouteResult(ridx)]
        ELSE [det |-> d3,
              raised |-> FALSE,
              result |-> _evaluate_deviation(min_dist, d3.consecutive_deviations,
                             wrong_direction(d3.gps_breadcrumbs, current_gps))]

\* update(current_gps, timestamp): the tracker afterwards, what it returned, and
\* whether it raised (IndexError at self.routes[ridx])
update(det, current_gps, timestamp, t, resp) ==
    LET d1 == [det EXCEPT !.gps_breadcrumbs =
                   Append(@, [position |-> current_gps, timestamp |-> timestamp])]
        d2 == check_for_reroutes(d1, t, resp)
        ridx == is_within_any_corridor(d2, current_gps)
        min_dist == min_route_distance(d2, current_gps)
        d3 == [d2 EXCEPT !.consecutive_deviations = @ + 1,
                         !.deviation_events =
                             Append(@, [timestamp |-> timestamp, distance |-> min_dist,
                                        position |-> current_gps])]
    IN  IF ridx # 0
        THEN [det |-> [d2 EXCEPT !.consecutive_deviations = 0],
              raised |-> ridx > Len(d2.routes),
              result |-> OnRouteResult(ridx)]
        ELSE [det |-> d3,
              raised |-> FALSE,
              result |-> _evaluate_deviation(min_dist, d3.consecutive_deviations,
                             wrong_direction(d3.gps_breadcrumbs, current_gps))]

\* the summary flagging a trip at the boundaries as well
get_trip_summary_inclusive(det) ==
    LET total == Len(det.gps_breadcrumbs)
        dev_time == Len(det.deviation_events)
        ds == { det.deviation_events[i].distance : i \in 1..dev_time }
        max_dev == IF ds = {} THEN 0 ELSE CHOOSE m \in ds : \A x \in ds : x <= m
    IN  [is_none |-> total = 0,
         total_points |-> total, deviation_events |-> dev_time,
         deviation_ratio |-> IF total = 0 THEN <<0, 1>> ELSE <<dev_time, total>>,
         max_deviation |-> max_dev,
         was_anomalous |-> total > 0 /\ (10 * dev_time >= 3 * total \/ max_dev >= 1000)]

\* get_trip_summary; total_points 0 stands for the None of an empty history, and
\* deviation_ratio is the fraction <<numerator, denominator>>
get_trip_summary(det) ==
    LET total == Len(det.gps_breadcrumbs)
        dev_time == Len(det.deviation_events)
        ds == { det.deviation_events[i].distance : i \in 1..dev_time }
        max_dev == IF ds = {} THEN 0 ELSE CHOOSE m \in ds : \A x \in ds : x <= m
    IN  [is_none |-> total = 0,
         total_points |-> total, deviation_events |-> dev_time,
         deviation_ratio |-> IF total = 0 THEN <<0, 1>> ELSE <<dev_time, total>>,
         max_deviation |-> max_dev,
         \* ratio > 0.3, as dev_time / total > 3 / 10
         was_anomalous |-> total > 0 /\ (10 * dev_time > 3 * total \/ max_dev > 1000)]

NullSummary ==
    [is_none |-> TRUE, total_points |-> 0, deviation_events |-> 0,
     deviation_ratio |-> <<0, 1>>, max_deviation |-> 0, was_anomalous |-> FALSE]

----------------------------------------------------------------------------
(* HybridMLModel: the fitted pipelines are opaque, so a feature map is the   *)
(* set of names it holds together with the two component scores the fitted  *)
(* pipelines return for its values.  Weights are in units of 1/1000000.     *)

WeightScale == 1000000

gb_weight == 700000
if_weight == 300000

\* the feature names of utils/config.py, which are the keys _extract_features
\* has defaults for
FEATURE_NAMES ==
    {"avg_speed", "max_speed", "speed_std", "avg_acceleration", "max_acceleration",
     "harsh_accel_count", "harsh_brake_count", "stop_count", "avg_stop_duration",
     "total_distance", "distance_per_stop", "time_of_day", "day_of_week",
     "trip_duration", "speed_changes", "route_straightness", "idle_time_ratio",
     "avg_trip_speed"}

\* the feature names the test suite stores in feature_names.pkl
MODEL_FEATURE_NAMES ==
    {"speed", "acceleration", "acceleration_variation", "trip_duration",
     "trip_distance", "stop_events", "road_encoded", "weather_encoded",
     "traffic_encoded", "hour", "month", "avg_speed", "stops_per_km", "accel_abs",
     "speed_normalized", "speed_squared", "is_rush_hour", "is_night"}

\* HybridMLModel.__init__ with feature_names.pkl holding names
NewModel(names) ==
    [gb_weight |-> gb_weight, if_weight |-> if_weight, feature_names |-> names]

\* component scores in hundredths, as the two fitted models return them
CalmFeatures == [given |-> FEATURE_NAMES, gb_score |-> 10, if_score |-> 40]
RecklessFeatures == [given |-> FEATURE_NAMES, gb_score |-> 90, if_score |-> 70]

MLInputs == {CalmFeatures, RecklessFeatures}

\* np.isclose(a, b): |a - b| <= atol + rtol |b| with atol 1e-8 and rtol 1e-5,
\* a and b whole numbers of weight units: 100000 |a - b| <= 1000 + |b|
isclose(a, b) == Abs(a - b) <= (1000 + Abs(b)) \div 100000

\* predict_level with the boundaries on the other side
predict_level_inclusive(hybrid_score) ==
    IF hybrid_score <= 3000 THEN "SAFE"
    ELSE IF hybrid_score <= 7000 THEN "MEDIUM"
    ELSE "HIGH RISK"

\* the tier predict gives a hybrid score
predict_level(hybrid_score) ==
    IF hybrid_score < 3000 THEN "SAFE"
    ELSE IF hybrid_score < 7000 THEN "MEDIUM"
    ELSE "HIGH RISK"

\* predict(features); raised stands for the ValueError of lines 43-45.  The
\* weighted sum is brought to score units (exact for weights in hundredths).
predict(features) ==
    LET hybrid_score ==
            (ml_model.gb_weight * features.gb_score
                 + ml_model.if_weight * features.if_score) \div ((100 * WeightScale) \div Scale)
    IN  [raised |-> ~(ml_model.feature_names \subseteq features.given),
         gb_score |-> features.gb_score, if_score |-> features.if_score,
         hybrid_score |-> hybrid_score, level |-> predict_level(hybrid_score)]

----------------------------------------------------------------------------
(* ExpertRulesEngine.  Adjustments are in score units, accelerations in     *)
(* tenths of m/s2, multipliers in tenths, ratings in hundredths; hours are  *)
(* whole.  A missing telemetry or context field is its documented default.  *)

\* the high-risk zones, laid out in the planar world: nima around Corner
HIGH_RISK_ZONES ==
    { [name |-> "nima", north |-> 800, south |-> 600, east |-> 800, west |-> 600,
       start_hour |-> 22, end_hour |-> 5],
      [name |-> "chorkor", north |-> -200, south |-> -400, east |-> -200,
       west |-> -400, start_hour |-> 22, end_hour |-> 6] }

RUSH_HOUR_ZONES ==
    {"Circle", "Kaneshie", "Achimota", "Madina", "Tema Station", "Tetteh Quarshie",
     "Airport Area"}

\* {'triggered': False}
NotTriggered ==
    [triggered |-> FALSE, rule_name |-> "None", risk_adjustment |-> 0,
     action |-> "None"]

\* a triggered rule; action "None" stands for a result without an 'action' key
Triggered(rule_name, risk_adjustment, action) ==
    [triggered |-> TRUE, rule_name |-> rule_name,
     risk_adjustment |-> risk_adjustment, action |-> action]

\* the last n elements of a list, h[-n:]
Tail10(h) == SubSeq(h, Max(1, Len(h) - 9), Len(h))

\* excess over the limit tested before the absolute speed
rule_extreme_speeding_excess_first(current_speed, speed_limit, location_type) ==
    IF current_speed - speed_limit >= 50
    THEN Triggered("EXCESSIVE_SPEEDING", 5000, "IMMEDIATE_ALERT")
    ELSE IF current_speed > 130
    THEN Triggered("EXTREME_SPEEDING", 5000, "IMMEDIATE_ALERT")
    ELSE IF location_type = "school_zone" /\ current_speed > 35
    THEN Triggered("SCHOOL_ZONE_SPEEDING", 4500, "IMMEDIATE_ALERT")
    ELSE NotTriggered

rule_extreme_speeding(current_speed, speed_limit, location_type) ==
    IF current_speed > 130
    THEN Triggered("EXTREME_SPEEDING", 5000, "IMMEDIATE_ALERT")
    ELSE IF current_speed - speed_limit >= 50
    THEN Triggered("EXCESSIVE_SPEEDING", 5000, "IMMEDIATE_ALERT")
    ELSE IF location_type = "school_zone" /\ current_speed > 35
    THEN Triggered("SCHOOL_ZONE_SPEEDING", 4500, "IMMEDIATE_ALERT")
    ELSE NotTriggered

\* a brake of exactly -7.0 counted as harsh
rule_crash_pattern_inclusive(acceleration_history, current_speed) ==
    IF Len(acceleration_history) < 10 THEN NotTriggered
    ELSE LET harsh_brake == SetMin(SeqToSet(Tail10(acceleration_history)))
             stopped == current_speed < 5
         IN  IF harsh_brake <= -70 /\ stopped
             THEN Triggered("CRASH_PATTERN", 6000, "IMMEDIATE_ALERT_AND_CALL_USER")
             ELSE NotTriggered

rule_crash_pattern(acceleration_history, current_speed) ==
    IF Len(acceleration_history) < 10 THEN NotTriggered
    ELSE LET harsh_brake == SetMin(SeqToSet(Tail10(acceleration_history)))
             stopped == current_speed < 5
         IN  IF harsh_brake < -70 /\ stopped
             THEN Triggered("CRASH_PATTERN", 6000, "IMMEDIATE_ALERT_AND_CALL_USER")
             ELSE NotTriggered

\* the risk window tested as start <= hour < end
rule_geofence_violation_unwrapped(current_location, time_of_day) ==
    IF \E zone \in HIGH_RISK_ZONES :
          /\ zone.south <= current_location[1] /\ current_location[1] <= zone.north
          /\ zone.west <= current_location[2] /\ current_location[2] <= zone.east
          /\ (time_of_day >= zone.start_hour /\ time_of_day < zone.end_hour)
    THEN Triggered("GEOFENCE_VIOLATION", 3500, "ALERT_USER_AND_SHARE_LOCATION")
    ELSE NotTriggered

rule_geofence_violation(current_location, time_of_day) ==
    IF \E zone \in HIGH_RISK_ZONES :
          /\ zone.south <= current_location[1] /\ current_location[1] <= zone.north
          /\ zone.west <= current_location[2] /\ current_location[2] <= zone.east
          /\ (time_of_day >= zone.start_hour \/ time_of_day < zone.end_hour)
    THEN Triggered("GEOFENCE_VIOLATION", 3500, "ALERT_USER_AND_SHARE_LOCATION")
    ELSE NotTriggered

rule_sustained_speeding(speed_history, speed_limit) ==
    IF Len(speed_history) < 10 THEN NotTriggered
    ELSE LET recent == Tail10(speed_history)
             over == { i \in 1..Len(recent) : recent[i] > speed_limit + 20 }
         IN  IF Cardinality(over) >= 10
             THEN Triggered("SUSTAINED_SPEEDING", 2500, "None")
             ELSE NotTriggered

\* t is the reading of datetime.now() taken inside the rule (line 192)
rule_harsh_event_cluster(harsh_events, t) ==
    LET time_window == 60
        recent == { i \in 1..Len(harsh_events) :
                      t - harsh_events[i].timestamp < time_window }
    IN  IF Cardinality(recent) >= 3
        THEN Triggered("HARSH_EVENT_CLUSTER", 2000, "None")
        ELSE NotTriggered

\* the rule engine's own great-circle distance, on the same planar stand-in
_haversine_distance(point1, point2) == haversine_distance(point1, point2)

rule_suspicious_stop_pattern(stop_count, stop_locations, time_of_day, expected_route) ==
    LET is_night == 22 <= time_of_day \/ time_of_day < 5
    IN  IF ~is_night \/ expected_route = <<>> THEN NotTriggered
        ELSE LET off_route ==
                     { i \in 1..Len(stop_locations) :
                         SetMin({ _haversine_distance(stop_locations[i], expected_route[j]) :
                                  j \in 1..Len(expected_route) }) > 500 }
             IN  IF Cardinality(off_route) >= 3
                 THEN Triggered("SUSPICIOUS_STOPS", 3000, "CHECK_IN_WITH_USER")
                 ELSE NotTriggered

\* 6 <= h < 9.5 and 16.5 <= h < 20 for whole hours
rule_rush_hour_context(time_of_day, day_of_week, location) ==
    LET is_weekday == day_of_week < 5
        is_morning == 6 <= time_of_day /\ time_of_day <= 9
        is_evening == 17 <= time_of_day /\ time_of_day < 20
    IN  IF is_weekday /\ (is_morning \/ is_evening) /\ location \in RUSH_HOUR_ZONES
        THEN [context |-> "RUSH_HOUR_CONGESTION", ml_score_damper |-> -1500]
        ELSE [context |-> "NORMAL", ml_score_damper |-> 0]

\* only the unpaved entry of ROAD_CONTEXTS carries an ml_score_damper
rule_road_type_context(road_type) ==
    [context |-> road_type,
     ml_score_damper |-> IF road_type = "unpaved" THEN -2000 ELSE 0]

TIME_RISK_MULTIPLIERS ==
    { <<0, 6, 25>>, <<6, 9, 11>>, <<9, 14, 10>>, <<14, 17, 9>>, <<17, 20, 13>>,
      <<20, 22, 15>>, <<22, 24, 32>> }

rule_time_risk_multiplier(time_of_day) ==
    LET hits == { m \in TIME_RISK_MULTIPLIERS : m[1] <= time_of_day /\ time_of_day < m[2] }
    IN  IF hits = {} THEN [context |-> "NORMAL", multiplier |-> 10, ml_adjustment |-> 0]
        ELSE LET m == CHOOSE m \in hits : TRUE
             IN  [context |-> "TIME_RISK", multiplier |-> m[3],
                  ml_adjustment |-> (m[3] - 10) * 150]

rule_speed_location_correlation(current_speed, location_type, time_of_day) ==
    LET adj == (IF location_type = "residential" /\ current_speed > 45 THEN 1500 ELSE 0)
               + (IF location_type = "school_zone" /\ 7 <= time_of_day /\ time_of_day < 17
                     /\ current_speed > 35 THEN 2500 ELSE 0)
               + (IF location_type = "motorway" /\ current_speed < 50 THEN 1000 ELSE 0)
    IN  IF adj > 0 THEN Triggered("SPEED_LOCATION_CORRELATION", adj, "None")
        ELSE NotTriggered

\* dev_ratio > 0.30 is route_deviation > 300; dur_excess > 0.50 is
\* 2 (trip_duration - expected_duration) > expected_duration > 0
rule_route_deviation_duration(route_deviation, trip_duration, expected_duration) ==
    IF /\ route_deviation > 300
       /\ expected_duration > 0
       /\ 2 * (trip_duration - expected_duration) > expected_duration
    THEN Triggered("ROUTE_DEVIATION_DURATION", 2000, "CHECK_IN_WITH_USER")
    ELSE NotTriggered

rule_professional_driver_profile(driver_history) ==
    IF /\ driver_history.trips_completed >= 500
       /\ driver_history.rating >= 475
       /\ driver_history.safety_incidents_90d = 0
    THEN [profile |-> "PROFESSIONAL", ml_adjustment |-> -1000]
    ELSE [profile |-> "STANDARD", ml_adjustment |-> 0]

rule_known_safe_route(route_signature, driver_id, route_history) ==
    IF /\ route_signature \in DOMAIN route_history
       /\ route_history[route_signature].count >= 10
       /\ route_history[route_signature].incidents = 0
    THEN [context |-> "KNOWN_SAFE_ROUTE", ml_adjustment |-> -500]
    ELSE [context |-> "NORMAL", ml_adjustment |-> 0]

IsTriggered(check) == check.triggered
HasAction(check) == check.action # "None"

RECURSIVE SumAdjustments(_)
SumAdjustments(checks) ==
    IF checks = <<>> THEN 0
    ELSE Head(checks).risk_adjustment + SumAdjustments(Tail(checks))

ActionsOf(checks) ==
    LET acting == SelectSeq(checks, HasAction)
    IN  [i \in 1..Len(acting) |-> acting[i].action]

\* trip_data and context with every field at the default apply_all_rules and
\* assess_risk give it
NoTripData ==
    [current_speed |-> 0, acceleration_history |-> <<>>, speed_history |-> <<>>,
     harsh_events |-> <<>>, stop_count |-> 0, stop_locations |-> <<>>,
     route_deviation |-> 0, trip_duration |-> 0, features |-> CalmFeatures]

NoHistory == [trips_completed |-> 0, rating |-> 0, safety_incidents_90d |-> 0]

NoContext ==
    [speed_limit |-> 50, location_type |-> "urban", current_location |-> <<0, 0>>,
     time_of_day |-> 12, expected_route |-> <<>>, day_of_week |-> 3,
     location |-> "", road_type |-> "arterial", expected_duration |-> 0,
     driver_history |-> NoHistory, route_signature |-> "", driver_id |-> "",
     route_history |-> <<>>]

\* d.get(key, default) for every key apply_all_rules reads
Defaulted(d, defaults) ==
    [key \in DOMAIN defaults |-> IF key \in DOMAIN d THEN d[key] ELSE defaults[key]]

\* the results dict with its total cut to [0,1]
results_clamped(critical_rules, severity_rules, context_adjustments, correlation_rules, whitelist_adjustments) ==
    LET total == SumAdjustments(critical_rules) + SumAdjustments(severity_rules)
                     + context_adjustments.time_risk.ml_adjustment
                     + context_adjustments.road_type.ml_score_damper
                     + context_adjustments.rush_hour.ml_score_damper
                     + SumAdjustments(correlation_rules)
                     + whitelist_adjustments.driver_profile.ml_adjustment
                     + whitelist_adjustments.known_route.ml_adjustment
    IN  [critical_rules |-> critical_rules,
         severity_rules |-> severity_rules,
         context_adjustments |-> context_adjustments,
         correlation_rules |-> correlation_rules,
         whitelist_adjustments |-> whitelist_adjustments,
         total_risk_adjustment |-> Max(0, Min(Scale, total)),
         triggered_actions |-> ActionsOf(critical_rules)]

\* the results dict as apply_all_rules fills it.  Only the critical loop
\* appends to triggered_actions (lines 393-394).
results(critical_rules, severity_rules, context_adjustments, correlation_rules, whitelist_adjustments) ==
    [critical_rules |-> critical_rules,
     severity_rules |-> severity_rules,
     context_adjustments |-> context_adjustments,
     correlation_rules |-> correlation_rules,
     whitelist_adjustments |-> whitelist_adjustments,
     total_risk_adjustment |->
         SumAdjustments(critical_rules) + SumAdjustments(severity_rules)
             + context_adjustments.time_risk.ml_adjustment
             + context_adjustments.road_type.ml_score_damper
             + context_adjustments.rush_hour.ml_score_damper
             + SumAdjustments(correlation_rules)
             + whitelist_adjustments.driver_profile.ml_adjustment
             + whitelist_adjustments.known_route.ml_adjustment,
     triggered_actions |-> ActionsOf(critical_rules)]

\* apply_all_rules at clock reading t, on dicts that may lack any key
apply_all_rules(trip_data_given, context_given, t) ==
    LET trip_data == Defaulted(trip_data_given, NoTripData)
        context == Defaulted(context_given, NoContext)
        critical_rules == SelectSeq(
            << rule_extreme_speeding(trip_data.current_speed, context.speed_limit,
                                     context.location_type),
               rule_crash_pattern(trip_data.acceleration_history,
                                  trip_data.current_speed),
               rule_geofence_violation(context.current_location,
                                       context.time_of_day) >>, IsTriggered)
        severity_rules == SelectSeq(
            << rule_sustained_speeding(trip_data.speed_history, context.speed_limit),
               rule_harsh_event_cluster(trip_data.harsh_events, t),
               rule_suspicious_stop_pattern(trip_data.stop_count,
                                            trip_data.stop_locations,
                                            context.time_of_day,
                                            context.expected_route) >>, IsTriggered)
        rush_hour == rule_rush_hour_context(context.time_of_day, context.day_of_week,
                                            context.location)
        road_type == rule_road_type_context(context.road_type)
        time_risk == rule_time_risk_multiplier(context.time_of_day)
        correlation_rules == SelectSeq(
            << rule_speed_location_correlation(trip_data.current_speed,
                                               context.location_type,
                                               context.time_of_day),
               rule_route_deviation_duration(trip_data.route_deviation,
                                             trip_data.trip_duration,
                                             context.expected_duration) >>, IsTriggered)
        prof == rule_professional_driver_profile(context.driver_history)
        route_w == rule_known_safe_route(context.route_signature, context.driver_id,
                                         context.route_history)
    IN  results(critical_rules, severity_rules,
                [rush_hour |-> rush_hour, road_type |-> road_type,
                 time_risk |-> time_risk],
                correlation_rules,
                [driver_profile |-> prof, known_route |-> route_w])

\* hour 15 (x0.9), unpaved road, professional driver, known safe route
WhitelistContext ==
    [NoContext EXCEPT !.time_of_day = 15, !.road_type = "unpaved",
         !.driver_history = [trips_completed |-> 800, rating |-> 490,
                             safety_incidents_90d |-> 0],
         !.route_signature = "home-work",
         !.route_history = [sig \in {"home-work"} |-> [count |-> 12, incidents |-> 0]]]

\* hour 23 (x3.2) inside the nima zone, on the expected route N1
NightInNima ==
    [NoContext EXCEPT !.time_of_day = 23, !.current_location = Corner,
                      !.expected_route = <<Origin, Destination>>]

\* empty telemetry and context: every default, hour 12, arterial road
NoRules == apply_all_rules(NoTripData, NoContext, 0)

Whitelisted == apply_all_rules(NoTripData, WhitelistContext, 0)

\* speed 140 over limit 50 at hour 23 (x3.2) inside the nima zone
SpeedingAtNight ==
    apply_all_rules([NoTripData EXCEPT !.current_speed = 140], NightInNima, 0)

RuleAggregates == {NoRules, Whitelisted, SpeedingAtNight}

----------------------------------------------------------------------------
(* RiskFusionEngine *)

\* core.route_anomaly guards its own optional imports, so importing it succeeds
_HAS_ROUTE == TRUE

NoMonitoringResult ==
    RouteResult("NO_ROUTE_MONITORING", 0, 0, FALSE, "None", "None")

\* fuse with the lower clamp forgotten
fuse_without_floor(ml_score, route_adj, rules_adj) ==
    Min(Scale, ml_score + route_adj + rules_adj)

\* final = max(0.0, min(1.0, ml_score + route_adj + rules_adj))
fuse(ml_score, route_adj, rules_adj) ==
    Max(0, Min(Scale, ml_score + route_adj + rules_adj))

\* the tier assess_risk gives a final score
final_level(final) ==
    IF final < 3000 THEN "SAFE"
    ELSE IF final < 7000 THEN "MEDIUM"
    ELSE "HIGH RISK"

\* lines 100-106 and list(set(actions))
derive_actions(rules_result, route_result, level) ==
    LET a1 == rules_result.triggered_actions
        a2 == IF route_result.action # "None" THEN Append(a1, route_result.action) ELSE a1
        a3 == IF level = "HIGH RISK" /\ a2 = <<>> THEN Append(a2, "ALERT_USER")
              ELSE IF level = "MEDIUM" /\ a2 = <<>> THEN Append(a2, "MONITOR")
              ELSE a2
    IN  SeqToSet(a3)

NoAssessment ==
    [ml_score |-> 0, ml_level |-> "None", gb_score |-> 0, if_score |-> 0,
     rules_adj |-> 0, critical_rules |-> <<>>, severity_rules |-> <<>>,
     route |-> NoMonitoringResult, final_score |-> 0, final_level |-> "None",
     actions |-> {}]

\* what the last call was, what it was given and what it gave back
Call(op, trip_id, outcome, reroute, assessment, summary) ==
    [op |-> op, trip_id |-> trip_id, outcome |-> outcome, reroute |-> reroute,
     assessment |-> assessment, summary |-> summary]

\* how the directions query of a call went: not asked, failed, or replaced
reroute_outcome(asked, resp) ==
    IF ~asked THEN "not_due"
    ELSE IF resp.kind # "routes" THEN resp.kind
    ELSE IF corridors_raise(resp.routes) THEN "build_failed"
    ELSE "replaced"

Tracked(trip_id) ==
    trip_id \in DOMAIN route_detectors /\ ~route_detectors[trip_id].none

RECURSIVE SumCrumbs(_, _)
SumCrumbs(d, ks) ==
    IF ks = {} THEN 0
    ELSE LET k == CHOOSE x \in ks : TRUE
         IN  Len(d[k].gps_breadcrumbs) + SumCrumbs(d, ks \ {k})

TotalCrumbs == SumCrumbs(route_detectors, DOMAIN route_detectors)

\* ending a trip tears down every tracker
PopAll(d, k) == [x \in {} |-> d[x]]

\* the dict with trip_id removed / set
Pop(d, k) == [x \in (DOMAIN d) \ {k} |-> d[x]]
Put(d, k, v) == [x \in (DOMAIN d) \cup {k} |-> IF x = k THEN v ELSE d[x]]

start_trip_monitoring(trip_id, resp) ==
    LET rs == _fetch_all_routes(resp)
        raises == google_api_key /\ _HAS_ROUTE
                  /\ (~_HAS_GEO_DEPS \/ corridors_raise(rs))
    IN  /\ route_detectors' =
              IF ~google_api_key \/ ~_HAS_ROUTE
              THEN Put(route_detectors, trip_id, NoDetector)
              ELSE IF raises THEN route_detectors
              ELSE Put(route_detectors, trip_id, NewDetector(rs, now))
        /\ queryLog' =
              IF google_api_key /\ _HAS_ROUTE /\ _HAS_GEO_DEPS
              THEN [queryLog EXCEPT ![trip_id] = IF raises THEN <<>> ELSE <<now>>]
              ELSE queryLog
        /\ started' = started \cup {trip_id}
        /\ lastCall' = Call("start", trip_id, IF raises THEN "raise" ELSE "ok",
                            "not_due", NoAssessment, NullSummary)
        /\ UNCHANGED <<now, google_api_key, _HAS_GEO_DEPS, ml_model, probe, probed, threads>>

\* del self.route_detectors[trip_id]: KeyError for an id not in the registry
end_trip_monitoring_strict(trip_id) ==
    LET known == trip_id \in DOMAIN route_detectors
        det == IF known THEN route_detectors[trip_id] ELSE NoDetector
    IN  /\ route_detectors' = Pop(route_detectors, trip_id)
        /\ queryLog' = [queryLog EXCEPT ![trip_id] = <<>>]
        /\ started' = started \ {trip_id}
        /\ lastCall' = Call("end", trip_id, IF known THEN "ok" ELSE "raise", "not_due",
                            NoAssessment,
                            IF det.none THEN NullSummary ELSE get_trip_summary(det))
        /\ UNCHANGED <<now, google_api_key, _HAS_GEO_DEPS, ml_model, probe, probed,
                       threads>>

end_trip_monitoring(trip_id) ==
    LET det == IF trip_id \in DOMAIN route_detectors
               THEN route_detectors[trip_id] ELSE NoDetector
    IN  /\ route_detectors' = Pop(route_detectors, trip_id)
        /\ queryLog' = [queryLog EXCEPT ![trip_id] = <<>>]
        /\ started' = started \ {trip_id}
        /\ lastCall' = Call("end", trip_id, "ok", "not_due", NoAssessment,
                            IF det.none THEN NullSummary ELSE get_trip_summary(det))
        /\ UNCHANGED <<now, google_api_key, _HAS_GEO_DEPS, ml_model, probe, probed, threads>>

\* the tracker updated whatever predict did
tracker_reached_regardless(trip_id, ml_result) == Tracked(trip_id)

\* predict raising at line 75 ends the call before the tracker is reached
\* (lines 83-87)
tracker_reached(trip_id, ml_result) == Tracked(trip_id) /\ ~ml_result.raised

assess_risk(trip_id, features, rules_result, gps, resp) ==
    LET ts == now
        ml_result == predict(features)
        ml_score == ml_result.hybrid_score
        rules_adj == rules_result.total_risk_adjustment
        det == route_detectors[trip_id]
        reached == tracker_reached(trip_id, ml_result)
        asked == reached /\ reroute_due(det, now)
        upd == update(det, gps, ts, now, resp)
        route_result == IF Tracked(trip_id) THEN upd.result ELSE NoMonitoringResult
        route_adj == route_result.risk_adjustment
        final == fuse(ml_score, route_adj, rules_adj)
        level == final_level(final)
        raised == reached /\ upd.raised
    IN  /\ route_detectors' =
              IF reached
              THEN [route_detectors EXCEPT ![trip_id] = upd.det]
              ELSE route_detectors
        /\ queryLog' =
              IF asked THEN [queryLog EXCEPT ![trip_id] = Append(@, now)]
              ELSE queryLog
        /\ lastCall' =
              IF ml_result.raised
              THEN Call("assess", trip_id, "missing_feature", "not_due",
                        NoAssessment, NullSummary)
              ELSE IF raised
              THEN Call("assess", trip_id, "raise", reroute_outcome(asked, resp),
                        NoAssessment, NullSummary)
              ELSE Call("assess", trip_id, "ok", reroute_outcome(asked, resp),
                        [ml_score |-> ml_score, ml_level |-> ml_result.level,
                         gb_score |-> ml_result.gb_score,
                         if_score |-> ml_result.if_score,
                         rules_adj |-> rules_adj,
                         critical_rules |-> rules_result.critical_rules,
                         severity_rules |-> rules_result.severity_rules,
                         route |-> route_result,
                         final_score |-> final, final_level |-> level,
                         actions |-> derive_actions(rules_result, route_result, level)],
                        NullSummary)
        /\ UNCHANGED <<now, google_api_key, _HAS_GEO_DEPS, ml_model, started, probe, probed,
                       threads>>

\* {**defaults, **trip_data.get('features', {})}: the names of FEATURE_NAMES
\* are the keys of defaults (lines 136-145)
_extract_features(trip_data) ==
    [trip_data.features EXCEPT !.given = FEATURE_NAMES \cup @]

\* assess_risk(trip_id, trip_data, context) as called: features and rule
\* aggregate are computed from the telemetry and the context (lines 74-80), the
\* fix is context['current_location'] (line 86)
assess(trip_id, trip_data, context, resp) ==
    assess_risk(trip_id, _extract_features(trip_data),
                apply_all_rules(trip_data, context, now),
                context.current_location, resp)

\* one part of an explanation: what it is about, its text (a level, a rule's
\* reason, a route status) and the numbers it prints
Part(kind, text, terms) == [kind |-> kind, text |-> text, terms |-> terms]

\* the reasons of a list of rules, each its own part
Reasons(kind, checks) ==
    [i \in 1..Len(checks) |-> Part(kind, checks[i].rule_name, <<>>)]

\* the time note given from a multiplier of 1.5 on
_explain_inclusive(ml, rules, route, final) ==
    LET tr == rules.context_adjustments.time_risk
    IN  <<Part("ml", ml.level, <<ml.hybrid_score>>)>>
            \o Reasons("critical", rules.critical_rules)
            \o (IF route.triggered THEN <<Part("route", route.status, <<>>)>> ELSE <<>>)
            \o Reasons("severity", rules.severity_rules)
            \o (IF tr.multiplier >= 15 THEN <<Part("time", "", <<tr.multiplier>>)>>
                 ELSE <<>>)
            \o <<Part("final", "",
                      <<final, ml.hybrid_score, rules.total_risk_adjustment,
                        route.risk_adjustment>>)>>

\* _explain: the parts that are joined with " | "
_explain(ml, rules, route, final) ==
    LET tr == rules.context_adjustments.time_risk
    IN  <<Part("ml", ml.level, <<ml.hybrid_score>>)>>
            \o Reasons("critical", rules.critical_rules)
            \o (IF route.triggered THEN <<Part("route", route.status, <<>>)>> ELSE <<>>)
            \o Reasons("severity", rules.severity_rules)
            \o (IF tr.multiplier > 15 THEN <<Part("time", "", <<tr.multiplier>>)>>
                 ELSE <<>>)
            \o <<Part("final", "",
                      <<final, ml.hybrid_score, rules.total_risk_adjustment,
                        route.risk_adjustment>>)>>

\* time passes between calls
Tick ==
    /\ now < MaxTicks * TickStep
    /\ now' = now + TickStep
    /\ UNCHANGED <<google_api_key, _HAS_GEO_DEPS, ml_model, route_detectors, queryLog,
                   started, lastCall, probe, probed, threads>>

\* the provider's answer matters only to a call that asks it
Answers(trip_id, answers) ==
    IF Tracked(trip_id) /\ reroute_due(route_detectors[trip_id], now)
    THEN answers
    ELSE {[kind |-> "empty", routes |-> <<>>]}

StartIn(trips, answers) ==
    \E trip_id \in trips, resp \in answers :
        start_trip_monitoring(trip_id, resp)

EndIn(trips) == \E trip_id \in trips : end_trip_monitoring(trip_id)

AssessIn(trips, inputs, aggregates, fixes, answers, budget) ==
    \E trip_id \in trips, features \in inputs, rules_result \in aggregates,
       gps \in fixes :
        \E resp \in Answers(trip_id, answers) :
            /\ Tracked(trip_id) => TotalCrumbs < budget
            /\ assess_risk(trip_id, features, rules_result, gps, resp)

\* RiskFusionEngine.__init__: no trips; the key and the optional packages are
\* whatever the deployment has
InitEngine ==
    /\ now = 0
    /\ google_api_key \in BOOLEAN
    /\ _HAS_GEO_DEPS \in BOOLEAN
    /\ ml_model = NewModel(FEATURE_NAMES)
    /\ route_detectors = [x \in {} |-> NoDetector]
    /\ queryLog = [x \in TripIds |-> <<>>]
    /\ started = {}
    /\ lastCall = Call("init", "None", "ok", "not_due", NoAssessment, NullSummary)

NoProbe == [kind |-> "none", score |-> 0, distance |-> 0, consecutive |-> 0,
            wrong_direction |-> FALSE]

NotProbed == [done |-> FALSE, fusion_level |-> "None", model_level |-> "None",
              deviation |-> NoMonitoringResult]

Init ==
    /\ InitEngine
    /\ probe = NoProbe
    /\ probed = NotProbed
    /\ threads = <<>>

\* The engine serving one trip, over every input
Start == StartIn({"t1"}, ProviderResponses)
Assess == AssessIn({"t1"}, MLInputs, RuleAggregates, GpsFixes, ProviderResponses,
                   MaxCrumbs)
End == EndIn({"t1"})

Next == Start \/ Assess \/ End \/ Tick

Spec == Init /\ [][Next]_vars

\* The engine serving several trips at once
FleetAnswers ==
    { [kind |-> "raise", routes |-> <<>>],
      [kind |-> "routes", routes |-> <<PrimaryRoute>>],
      [kind |-> "routes", routes |-> <<PointRoute>>] }

StartFleet == StartIn(TripIds, FleetAnswers)
AssessFleet == AssessIn(TripIds, {CalmFeatures}, {NoRules}, {Origin, Corner},
                        FleetAnswers, MaxFleetCrumbs)
EndFleet == EndIn(TripIds)

NextFleet == StartFleet \/ AssessFleet \/ EndFleet \/ Tick

FleetSpec == Init /\ [][NextFleet]_vars

----------------------------------------------------------------------------
(* One trip assessed again and again with the same telemetry and context *)

MaxCallCrumbs == 1   \* fixes the tracker receives at most

\* speed 140 km/h, everything else default
Speeding == [NoTripData EXCEPT !.current_speed = 140]

\* three stops at Corner, 700 m from the nearest point of the expected route
NightStops ==
    [NoTripData EXCEPT !.stop_count = 3, !.stop_locations = <<Corner, Corner, Corner>>]

\* hour 23 at Origin, outside every zone, the expected route known
NightOnRoute ==
    [NoContext EXCEPT !.time_of_day = 23, !.expected_route = <<Origin, Destination>>]

\* fitted pipelines returning 0 and 1
ZeroFeatures == [given |-> FEATURE_NAMES, gb_score |-> 0, if_score |-> 0]
OneFeatures == [given |-> FEATURE_NAMES, gb_score |-> 100, if_score |-> 100]

CallInputs ==
    { [kind |-> "call", trip_data |-> [td EXCEPT !.features = f], context |-> c] :
      td \in {NoTripData, Speeding, NightStops},
      f \in {ZeroFeatures, CalmFeatures, RecklessFeatures, OneFeatures},
      c \in {NoContext, NightInNima, NightOnRoute, WhitelistContext} }

StartAnswers ==
    { [kind |-> "raise", routes |-> <<>>],
      [kind |-> "routes", routes |-> <<PrimaryRoute, AlternativeRoute>>] }

RerouteAnswers ==
    { [kind |-> "raise", routes |-> <<>>],
      [kind |-> "routes", routes |-> <<PrimaryRoute>>],
      [kind |-> "routes", routes |-> <<PointRoute>>] }

InitCalls ==
    /\ InitEngine
    /\ probe \in CallInputs
    /\ probed = NotProbed
    /\ threads = <<>>

StartTrip == StartIn({"t1"}, StartAnswers)

AssessTelemetry ==
    \E resp \in Answers("t1", RerouteAnswers) :
        /\ Tracked("t1") => TotalCrumbs < MaxCallCrumbs
        /\ assess("t1", probe.trip_data, probe.context, resp)

NextCalls == StartTrip \/ AssessTelemetry \/ Tick

CallSpec == InitCalls /\ [][NextCalls]_vars

----------------------------------------------------------------------------
(* The rule catalog evaluated again and again on one telemetry and context, *)
(* while time passes and other inputs are evaluated on the same engine      *)

\* an emergency brake of 8.0 m/s2 in the last ten samples, now standing
Crash ==
    [NoTripData EXCEPT !.acceleration_history = <<0, 0, 0, 0, 0, 0, 0, 0, 0, -80>>]

\* ten samples of 80 km/h
Sustained ==
    [NoTripData EXCEPT !.current_speed = 80,
                       !.speed_history = <<80, 80, 80, 80, 80, 80, 80, 80, 80, 80>>]

\* three harsh events stamped 45 s before the clock's origin
HarshCluster ==
    [NoTripData EXCEPT !.harsh_events =
         <<[timestamp |-> -45], [timestamp |-> -45], [timestamp |-> -45]>>]

\* 400 m off the route, twice the expected duration
Lingering == [NoTripData EXCEPT !.route_deviation = 400, !.trip_duration = 200]

Detour == [NoContext EXCEPT !.expected_duration = 100]

\* Tuesday 8 o'clock at Circle
RushHour ==
    [NoContext EXCEPT !.time_of_day = 8, !.day_of_week = 1, !.location = "Circle"]

\* a dict without any key
EmptyDict == [key \in {} |-> 0]

\* dicts holding one key only
OnlySpeed == [current_speed |-> 140]
OnlyHour == [time_of_day |-> 23]

RuleInputs ==
    { [kind |-> "rules", trip_data |-> td, context |-> c] :
      td \in {NoTripData, Speeding, Crash, Sustained, HarshCluster, NightStops,
              Lingering, EmptyDict, OnlySpeed},
      c \in {NoContext, NightInNima, NightOnRoute, WhitelistContext, Detour,
             RushHour, EmptyDict, OnlyHour} }

NotEvaluated == [done |-> FALSE, first |-> NoRules, latest |-> NoRules]

InitRules ==
    /\ InitEngine
    /\ google_api_key /\ _HAS_GEO_DEPS
    /\ probe \in RuleInputs
    /\ probed = NotEvaluated
    /\ threads = <<>>

\* apply_all_rules on the input under watch; the first and the latest aggregate
\* are kept
Evaluate ==
    /\ LET aggregate == apply_all_rules(probe.trip_data, probe.context, now)
       IN  probed' = IF probed.done THEN [probed EXCEPT !.latest = aggregate]
                     ELSE [done |-> TRUE, first |-> aggregate, latest |-> aggregate]
    /\ UNCHANGED <<now, google_api_key, _HAS_GEO_DEPS, ml_model, route_detectors,
                   queryLog, started, lastCall, probe, threads>>

\* apply_all_rules on any other input: the engine keeps nothing of it
EvaluateOther ==
    /\ \E other \in RuleInputs \ {probe} :
          apply_all_rules(other.trip_data, other.context, now).total_risk_adjustment
              \in Int
    /\ lastCall' = Call("apply_all_rules", "None", "ok", "not_due", NoAssessment,
                        NullSummary)
    /\ UNCHANGED <<now, google_api_key, _HAS_GEO_DEPS, ml_model, route_detectors,
                   queryLog, started, probe, probed, threads>>

NextRules == Evaluate \/ EvaluateOther \/ Tick

RulesSpec == InitRules /\ [][NextRules]_vars

----------------------------------------------------------------------------
(* Single rules of the catalog, each called on its own arguments *)

MaxSamples == 12

RuleProbe(kind, history, speed, limit, location_type, position, hour) ==
    [kind |-> kind, history |-> history, speed |-> speed, limit |-> limit,
     location_type |-> location_type, position |-> position, hour |-> hour]

\* acceleration histories, tenths of m/s^2: none, or 9 to MaxSamples samples
\* that are calm but for up to two of them
Histories ==
    {<<>>} \cup
    { [k \in 1..n |-> IF k = i THEN v ELSE IF k = j THEN w ELSE 0] :
        n \in 9..MaxSamples, i \in 1..MaxSamples, j \in 1..MaxSamples,
        v \in {-71, -70}, w \in {-100, -71, -70, 0} }

CrashProbes ==
    { RuleProbe("crash", h, speed, 50, "urban", Origin, 12) :
        h \in Histories, speed \in {4, 5} }

\* inside nima, on and just outside its box, inside chorkor, outside every zone
ZonePositions ==
    { <<700, 700>>, <<600, 600>>, <<800, 800>>, <<599, 700>>, <<700, 801>>,
      <<-300, -300>>, Origin }

GeofenceProbes ==
    { RuleProbe("geofence", <<>>, 0, 50, "urban", position, hour) :
        position \in ZonePositions, hour \in 0..23 }

SpeedProbes ==
    { RuleProbe("speeding", <<>>, speed, limit, location_type, Origin, 12) :
        speed \in {35, 36, 99, 100, 130, 131}, limit \in {50, 51, 80, 81},
        location_type \in {"urban", "school_zone"} }

NotChecked == [done |-> FALSE, check |-> NotTriggered]

InitCatalog ==
    /\ InitEngine
    /\ google_api_key /\ _HAS_GEO_DEPS
    /\ probe \in CrashProbes \cup GeofenceProbes \cup SpeedProbes
    /\ probed = NotChecked
    /\ threads = <<>>

Checked(check) ==
    /\ ~probed.done
    /\ probed' = [done |-> TRUE, check |-> check]
    /\ UNCHANGED <<now, google_api_key, _HAS_GEO_DEPS, ml_model, route_detectors,
                   queryLog, started, lastCall, probe, threads>>

CrashPattern ==
    probe.kind = "crash" /\ Checked(rule_crash_pattern(probe.history, probe.speed))

GeofenceViolation ==
    probe.kind = "geofence" /\ Checked(rule_geofence_violation(probe.position, probe.hour))

ExtremeSpeeding ==
    /\ probe.kind = "speeding"
    /\ Checked(rule_extreme_speeding(probe.speed, probe.limit, probe.location_type))

NextCatalog == CrashPattern \/ GeofenceViolation \/ ExtremeSpeeding

CatalogSpec == InitCatalog /\ [][NextCatalog]_vars

----------------------------------------------------------------------------
(* One tracker on the primary route, fed fixes and summarised when the trip *)
(* ends.  The fixes the tracker classified off the route are tallied from   *)
(* what each update returned.                                               *)

MaxSummaryCrumbs == 10

\* the routing service is not asked
NotAsked == [kind |-> "empty", routes |-> <<>>]

\* past the end of the primary route, on its line: 350 m, 1000 m and 1001 m
\* beyond the destination
BeyondFix == <<0, 1050>>
FarFix == <<0, 1700>>
FartherFix == <<0, 1701>>

NoTally == [done |-> FALSE, updates |-> 0, off_route |-> 0, max_distance |-> 0]

InitTracker ==
    /\ now = 0
    /\ google_api_key = TRUE
    /\ _HAS_GEO_DEPS = TRUE
    /\ ml_model = NewModel(FEATURE_NAMES)
    /\ route_detectors = [x \in {} |-> NoDetector]
    /\ queryLog = [x \in TripIds |-> <<>>]
    /\ started = {}
    /\ lastCall = Call("init", "None", "ok", "not_due", NoAssessment, NullSummary)
    /\ probe = NoProbe
    /\ probed = NoTally
    /\ threads = <<>>

BeginTrip ==
    /\ lastCall.op = "init"
    /\ start_trip_monitoring("t1", [kind |-> "routes", routes |-> <<PrimaryRoute>>])

\* one update of the tracker; a trip has at most one fix 1000 m or more away
Fix ==
    \E gps \in {Origin, BeyondFix, FarFix, FartherFix} :
        LET det == route_detectors["t1"]
            u == update(det, gps, now, now, NotAsked)
            off == u.result.status \notin {"ON_PRIMARY_ROUTE", "ON_ALTERNATIVE_ROUTE"}
        IN  /\ Tracked("t1")
            /\ Len(det.gps_breadcrumbs) < MaxSummaryCrumbs
            /\ gps \in {FarFix, FartherFix} => probed.max_distance < 1000
            /\ route_detectors' = Put(route_detectors, "t1", u.det)
            /\ lastCall' = Call("update", "t1", "ok", "not_due",
                                [NoAssessment EXCEPT !.route = u.result], NullSummary)
            /\ probed' = [done |-> TRUE,
                          updates |-> probed.updates + 1,
                          off_route |-> probed.off_route + (IF off THEN 1 ELSE 0),
                          max_distance |-> Max(probed.max_distance,
                                               u.result.deviation_distance)]
            /\ UNCHANGED <<now, google_api_key, _HAS_GEO_DEPS, ml_model, queryLog,
                           started, probe, threads>>

EndTrip == Tracked("t1") /\ end_trip_monitoring("t1")

NextTracker == BeginTrip \/ Fix \/ EndTrip

TrackerSpec == InitTracker /\ [][NextTracker]_vars

----------------------------------------------------------------------------
(* One tracker on the primary route through runs of fixes off the route.    *)
(* The length of the current run is counted from what each update returned. *)

MaxUpdates == 21

\* past the end of the primary route, on its line: 180 m, 200 m, 250 m, 500 m
\* and 600 m beyond the destination
RunFixes == { <<0, 700 + d>> : d \in {180, 200, 250, 500, 600} }

NoRun == [done |-> FALSE, run |-> 0, wrong |-> FALSE, broke |-> FALSE]

InitRuns ==
    /\ now = 0
    /\ google_api_key = TRUE
    /\ _HAS_GEO_DEPS = TRUE
    /\ ml_model = NewModel(FEATURE_NAMES)
    /\ route_detectors = [x \in {} |-> NoDetector]
    /\ queryLog = [x \in TripIds |-> <<>>]
    /\ started = {}
    /\ lastCall = Call("init", "None", "ok", "not_due", NoAssessment, NullSummary)
    /\ probe = NoProbe
    /\ probed = NoRun
    /\ threads = <<>>

\* one update of the tracker.  A trip is either one run in which the vehicle
\* stands or comes nearer, or a run standing at one fix, one fix at the
\* destination, and a second run standing at one fix.
RunFix ==
    \E gps \in RunFixes \cup {Destination} :
        LET det == route_detectors["t1"]
            crumbs == det.gps_breadcrumbs
            last == IF crumbs = <<>> THEN gps ELSE crumbs[Len(crumbs)].position
            u == update(det, gps, now, now, NotAsked)
            off == u.result.status \notin {"ON_PRIMARY_ROUTE", "ON_ALTERNATIVE_ROUTE"}
        IN  /\ Tracked("t1")
            /\ Len(crumbs) < MaxUpdates
            /\ IF gps = Destination
               THEN /\ ~probed.broke /\ crumbs # <<>>
                    /\ \A i \in 1..Len(crumbs) : crumbs[i].position = last
               ELSE \/ crumbs = <<>>
                    \/ last = Destination
                    \/ gps = last
                    \/ ~probed.broke /\ gps[2] < last[2]
            /\ route_detectors' = Put(route_detectors, "t1", u.det)
            /\ lastCall' = Call("update", "t1", "ok", "not_due",
                                [NoAssessment EXCEPT !.route = u.result], NullSummary)
            /\ probed' = [done |-> TRUE,
                          run |-> IF off THEN probed.run + 1 ELSE 0,
                          wrong |-> off /\ (probed.wrong
                                              \/ u.result.status = "WRONG_DIRECTION"),
                          broke |-> probed.broke \/ ~off]
            /\ UNCHANGED <<now, google_api_key, _HAS_GEO_DEPS, ml_model, queryLog,
                           started, probe, threads>>

NextRuns == BeginTrip \/ RunFix

RunSpec == InitRuns /\ [][NextRuns]_vars

----------------------------------------------------------------------------
(* The predictive model behind the engine: its fusion weights are set and   *)
(* one telemetry is assessed, for either set of feature names               *)

\* the last call was set_fusion_weights(gb, if_)
WeightsCall(gb, if_, outcome) ==
    [op |-> "set_fusion_weights", trip_id |-> "None", outcome |-> outcome,
     reroute |-> "not_due", assessment |-> NoAssessment, summary |-> NullSummary,
     gb_weight |-> gb, if_weight |-> if_]

\* the first weight stored before the sum is tested
set_fusion_weights_partial(gb, if_) ==
    LET ok == isclose(gb + if_, WeightScale)
    IN  /\ ml_model' = IF ok THEN [ml_model EXCEPT !.gb_weight = gb, !.if_weight = if_]
                       ELSE [ml_model EXCEPT !.gb_weight = gb]
        /\ lastCall' = WeightsCall(gb, if_, IF ok THEN "ok" ELSE "raise")
        /\ UNCHANGED <<now, google_api_key, _HAS_GEO_DEPS, route_detectors, queryLog,
                       started, probe, probed, threads>>

set_fusion_weights(gb, if_) ==
    LET ok == isclose(gb + if_, WeightScale)
    IN  /\ ml_model' = IF ok THEN [ml_model EXCEPT !.gb_weight = gb, !.if_weight = if_]
                       ELSE ml_model
        /\ lastCall' = WeightsCall(gb, if_, IF ok THEN "ok" ELSE "raise")
        /\ UNCHANGED <<now, google_api_key, _HAS_GEO_DEPS, route_detectors, queryLog,
                       started, probe, probed, threads>>

\* weight pairs handed to the setter: 0.5/0.5, 0/1, 0.6/0.6, 1.5/-0.5,
\* 0.7/0.300005 and 0.7/0.30002
WeightPairs ==
    { <<500000, 500000>>, <<0, 1000000>>, <<600000, 600000>>,
      <<1500000, -500000>>, <<700000, 300005>>, <<700000, 300020>> }

\* the 'features' of a telemetry: none, every name of either set, or a set
\* lacking one name
FeatureSets ==
    { {}, FEATURE_NAMES, FEATURE_NAMES \ {"avg_speed"}, MODEL_FEATURE_NAMES,
      MODEL_FEATURE_NAMES \ {"avg_speed"}, MODEL_FEATURE_NAMES \ {"speed"} }

TelemetryInputs ==
    { [kind |-> "telemetry",
       features |-> [given |-> g, gb_score |-> gb, if_score |-> if_]] :
      g \in FeatureSets, gb \in {0, 10, 100}, if_ \in {0, 100} }

InitModel ==
    /\ now = 0
    /\ google_api_key = FALSE
    /\ _HAS_GEO_DEPS \in BOOLEAN
    /\ \E names \in {FEATURE_NAMES, MODEL_FEATURE_NAMES} : ml_model = NewModel(names)
    /\ route_detectors = [x \in {} |-> NoDetector]
    /\ queryLog = [x \in TripIds |-> <<>>]
    /\ started = {}
    /\ lastCall = Call("init", "None", "ok", "not_due", NoAssessment, NullSummary)
    /\ probe \in TelemetryInputs
    /\ probed = NotProbed
    /\ threads = <<>>

SetWeights == \E w \in WeightPairs : set_fusion_weights(w[1], w[2])

AssessFeatures ==
    assess("t1", [NoTripData EXCEPT !.features = probe.features], NoContext, NotAsked)

NextModel == SetWeights \/ AssessFeatures

ModelSpec == InitModel /\ [][NextModel]_vars

----------------------------------------------------------------------------
(* One trip assessed by a model that requires the feature 'speed', with     *)
(* telemetry that has it and telemetry that lacks it                        *)

WithSpeed == [given |-> MODEL_FEATURE_NAMES, gb_score |-> 10, if_score |-> 40]
WithoutSpeed == [WithSpeed EXCEPT !.given = MODEL_FEATURE_NAMES \ {"speed"}]

InitReject ==
    /\ now = 0
    /\ google_api_key = TRUE
    /\ _HAS_GEO_DEPS = TRUE
    /\ ml_model = NewModel(MODEL_FEATURE_NAMES)
    /\ route_detectors = [x \in {} |-> NoDetector]
    /\ queryLog = [x \in TripIds |-> <<>>]
    /\ started = {}
    /\ lastCall = Call("init", "None", "ok", "not_due", NoAssessment, NullSummary)
    /\ probe = NoProbe
    /\ probed = NotProbed
    /\ threads = <<>>

\* the telemetry carries every feature the model requires
AssessAccepted ==
    \E gps \in GpsFixes :
        \E resp \in Answers("t1", RerouteAnswers) :
            /\ Tracked("t1") => TotalCrumbs < MaxCrumbs
            /\ assess("t1", [NoTripData EXCEPT !.features = WithSpeed],
                      [NoContext EXCEPT !.current_location = gps], resp)

\* the telemetry lacks 'speed', which _extract_features does not default
AssessRejected ==
    \E gps \in GpsFixes :
        \E resp \in Answers("t1", RerouteAnswers) :
            assess("t1", [NoTripData EXCEPT !.features = WithoutSpeed],
                   [NoContext EXCEPT !.current_location = gps], resp)

NextReject == BeginTrip \/ AssessAccepted \/ AssessRejected \/ End \/ Tick

RejectSpec == InitReject /\ [][NextReject]_vars

----------------------------------------------------------------------------
(* The explanation of an assessment, written from its three components *)

\* hour 20 (x1.5)
Evening == [NoContext EXCEPT !.time_of_day = 20]

\* three harsh events now, and three stops away from the expected route
HarshStops ==
    [NoTripData EXCEPT !.stop_count = 3, !.stop_locations = <<Corner, Corner, Corner>>,
         !.harsh_events = <<[timestamp |-> 0], [timestamp |-> 0], [timestamp |-> 0]>>]

ExplainedRules ==
    { apply_all_rules(td, c, 0) :
        td \in {NoTripData, Speeding, NightStops, HarshStops,
                [HarshStops EXCEPT !.current_speed = 140]},
        c \in {NoContext, NightInNima, NightOnRoute, Evening, WhitelistContext} }

ExplainedRoutes ==
    { NoMonitoringResult, OnRouteResult(1), _evaluate_deviation(600, 1, FALSE),
      _evaluate_deviation(600, 5, FALSE), _evaluate_deviation(400, 1, TRUE) }

ExplainInputs ==
    { [kind |-> "explain", features |-> f, rules |-> r, route |-> rt] :
        f \in MLInputs, r \in ExplainedRules, rt \in ExplainedRoutes }

NotExplained == [done |-> FALSE, ml |-> predict(CalmFeatures), final |-> 0,
                 explanation |-> <<>>]

InitExplain ==
    /\ InitEngine
    /\ google_api_key /\ _HAS_GEO_DEPS
    /\ probe \in ExplainInputs
    /\ probed = NotExplained
    /\ threads = <<>>

Explain ==
    LET ml == predict(probe.features)
        final == fuse(ml.hybrid_score, probe.route.risk_adjustment,
                      probe.rules.total_risk_adjustment)
    IN  /\ ~probed.done
        /\ probed' = [done |-> TRUE, ml |-> ml, final |-> final,
                      explanation |-> _explain(ml, probe.rules, probe.route, final)]
        /\ UNCHANGED <<now, google_api_key, _HAS_GEO_DEPS, ml_model, route_detectors,
                       queryLog, started, lastCall, probe, threads>>

NextExplain == Explain

ExplainSpec == InitExplain /\ [][NextExplain]_vars

----------------------------------------------------------------------------
(* The pure functions on their own: an input is drawn, the function applied *)

MaxConsecutive == 21   \* largest consecutive count probed

ProbeDistances ==
    {0, 100, 150, 151, 199, 200, 201, 250, 300, 301, 500, 501, 600, 1001, Infinity}

ScoreProbes ==
    { [kind |-> "score", score |-> s, distance |-> 0, consecutive |-> 0,
       wrong_direction |-> FALSE] : s \in 0..Scale }

DeviationProbes ==
    { [kind |-> "deviation", score |-> 0, distance |-> d, consecutive |-> c,
       wrong_direction |-> w] :
      d \in ProbeDistances, c \in 0..MaxConsecutive, w \in BOOLEAN }

InitProbe ==
    /\ InitEngine
    /\ google_api_key /\ _HAS_GEO_DEPS
    /\ probe \in ScoreProbes \cup DeviationProbes
    /\ probed = NotProbed
    /\ threads = <<>>

\* both layers classify the same score
ClassifyScore ==
    /\ probe.kind = "score" /\ ~probed.done
    /\ probed' = [done |-> TRUE,
                  fusion_level |-> final_level(probe.score),
                  model_level |-> predict_level(probe.score),
                  deviation |-> NoMonitoringResult]
    /\ UNCHANGED <<now, google_api_key, _HAS_GEO_DEPS, ml_model, route_detectors, queryLog,
                   started, lastCall, probe, threads>>

EvaluateDeviation ==
    /\ probe.kind = "deviation" /\ ~probed.done
    /\ probed' = [done |-> TRUE, fusion_level |-> "None", model_level |-> "None",
                  deviation |-> _evaluate_deviation(probe.distance, probe.consecutive,
                                                    probe.wrong_direction)]
    /\ UNCHANGED <<now, google_api_key, _HAS_GEO_DEPS, ml_model, route_detectors, queryLog,
                   started, lastCall, probe, threads>>

NextProbe == ClassifyScore \/ EvaluateDeviation

ProbeSpec == InitProbe /\ [][NextProbe]_vars

----------------------------------------------------------------------------
(* Two assess calls for the same trip running at once.  The code takes no   *)
(* lock, so the statements of RouteAnomalyDetector.update interleave; the   *)
(* read and the write of "consecutive_deviations += 1" are separate steps.  *)

ThreadIds == {1, 2}

Frame(pc, gps, min_dist, loaded, result) ==
    [pc |-> pc, gps |-> gps, min_dist |-> min_dist, loaded |-> loaded,
     result |-> result]

IdleFrame == Frame("idle", Origin, 0, 0, NoMonitoringResult)

InitConc ==
    /\ now = 0
    /\ google_api_key = TRUE
    /\ _HAS_GEO_DEPS = TRUE
    /\ ml_model = NewModel(FEATURE_NAMES)
    /\ \E rs \in {<<PrimaryRoute>>, <<PrimaryRoute, AlternativeRoute>>} :
          route_detectors = [x \in {"t1"} |-> NewDetector(rs, 0)]
    /\ queryLog = [x \in TripIds |-> IF x = "t1" THEN <<0>> ELSE <<>>]
    /\ started = {"t1"}
    /\ lastCall = Call("start", "t1", "ok", "not_due", NoAssessment, NullSummary)
    /\ probe = NoProbe
    /\ probed = NotProbed
    /\ threads = [th \in ThreadIds |-> IdleFrame]

ConcUnchanged ==
    UNCHANGED <<now, google_api_key, _HAS_GEO_DEPS, ml_model, queryLog, started, lastCall,
                probe, probed>>

SetDetector(det) == route_detectors' = [route_detectors EXCEPT !["t1"] = det]

\* assess_risk line 87: det.update(gps, ts) is entered
T_Call(th) ==
    /\ threads[th].pc = "idle"
    /\ \E gps \in GpsFixes :
          threads' = [threads EXCEPT ![th] = Frame("append", gps, 0, 0, @.result)]
    /\ UNCHANGED route_detectors
    /\ ConcUnchanged

\* line 194
T_Append(th) ==
    /\ threads[th].pc = "append"
    /\ SetDetector([route_detectors["t1"] EXCEPT !.gps_breadcrumbs =
                       Append(@, [position |-> threads[th].gps, timestamp |-> now])])
    /\ threads' = [threads EXCEPT ![th].pc = "reroute"]
    /\ ConcUnchanged

\* line 195 (not due: the clock has not moved since the tracker was created)
T_Reroute(th) ==
    /\ threads[th].pc = "reroute"
    /\ SetDetector(check_for_reroutes(route_detectors["t1"], now, NotAsked))
    /\ threads' = [threads EXCEPT ![th].pc = "within"]
    /\ ConcUnchanged

\* lines 197-212: on route, reset and return; off route, find the distance
T_Within(th) ==
    /\ threads[th].pc = "within"
    /\ LET det == route_detectors["t1"]
           ridx == is_within_any_corridor(det, threads[th].gps)
       IN  IF ridx # 0
           THEN /\ SetDetector([det EXCEPT !.consecutive_deviations = 0])
                /\ threads' = [threads EXCEPT ![th].pc = "done",
                                              ![th].result = OnRouteResult(ridx)]
           ELSE /\ UNCHANGED route_detectors
                /\ threads' = [threads EXCEPT ![th].pc = "load",
                                  ![th].min_dist = min_route_distance(det, threads[th].gps)]
    /\ ConcUnchanged

\* line 214, the read of self.consecutive_deviations
T_Load(th) ==
    /\ threads[th].pc = "load"
    /\ threads' = [threads EXCEPT ![th].pc = "store",
                      ![th].loaded = route_detectors["t1"].consecutive_deviations]
    /\ UNCHANGED route_detectors
    /\ ConcUnchanged

\* line 214, the write, and lines 215-217
T_Store(th) ==
    /\ threads[th].pc = "store"
    /\ SetDetector([route_detectors["t1"] EXCEPT
                       !.consecutive_deviations = threads[th].loaded + 1,
                       !.deviation_events =
                           Append(@, [timestamp |-> now,
                                      distance |-> threads[th].min_dist,
                                      position |-> threads[th].gps])])
    /\ threads' = [threads EXCEPT ![th].pc = "heading"]
    /\ ConcUnchanged

\* lines 219-228
T_Return(th) ==
    /\ threads[th].pc = "heading"
    /\ LET det == route_detectors["t1"]
       IN  threads' = [threads EXCEPT ![th].pc = "done",
                          ![th].result =
                              _evaluate_deviation(threads[th].min_dist,
                                  det.consecutive_deviations,
                                  wrong_direction(det.gps_breadcrumbs, threads[th].gps))]
    /\ UNCHANGED route_detectors
    /\ ConcUnchanged

EnterUpdate == \E th \in ThreadIds : T_Call(th)
AppendCrumb == \E th \in ThreadIds : T_Append(th)
Reroute == \E th \in ThreadIds : T_Reroute(th)
Within == \E th \in ThreadIds : T_Within(th)
LoadCounter == \E th \in ThreadIds : T_Load(th)
StoreCounter == \E th \in ThreadIds : T_Store(th)
Return == \E th \in ThreadIds : T_Return(th)

NextConc ==
    EnterUpdate \/ AppendCrumb \/ Reroute \/ Within \/ LoadCounter \/ StoreCounter \/ Return

ConcSpec == InitConc /\ [][NextConc]_vars

----------------------------------------------------------------------------
(* Properties *)

Assessed == lastCall.op = "assess" /\ lastCall.outcome = "ok"

UnclampedSum ==
    lastCall.assessment.ml_score + lastCall.assessment.rules_adj
        + lastCall.assessment.route.risk_adjustment

\* C1: every assessment returned has final_score equal to the predictive score
\* plus the rule total plus the corridor adjustment, clamped to [0,1], whatever
\* the sum is; hence final_score is in [0,1].
C1_FinalScoreClamped ==
    Assessed =>
        /\ lastCall.assessment.final_score =
              (IF UnclampedSum < 0 THEN 0
               ELSE IF UnclampedSum > Scale THEN Scale ELSE UnclampedSum)
        /\ lastCall.assessment.final_score \in 0..Scale

\* an assessment of a tracked, off-route trip whose contributions sum below 0
C1_Witness ==
    /\ Assessed
    /\ lastCall.assessment.route.risk_adjustment > 0
    /\ UnclampedSum < 0
    /\ lastCall.assessment.final_score = 0

\* C2: for every score in [0,1] the fusion layer and the predictive-model
\* wrapper give the same tier: SAFE iff s < 0.3, MEDIUM iff 0.3 <= s < 0.7,
\* HIGH RISK iff s >= 0.7.
C2_TiersAgree ==
    (probe.kind = "score" /\ probed.done) =>
        /\ probed.fusion_level = probed.model_level
        /\ probed.fusion_level = "SAFE" <=> probe.score < 3000
        /\ probed.fusion_level = "MEDIUM" <=> (3000 <= probe.score /\ probe.score < 7000)
        /\ probed.fusion_level = "HIGH RISK" <=> probe.score >= 7000

\* the score exactly 0.7 classified, by both layers
C2_Witness ==
    /\ probe.kind = "score" /\ probed.done
    /\ probe.score = 7000
    /\ probed.model_level = "HIGH RISK"

LadderStatus(d, c, w) ==
    IF w /\ d > 300 THEN "WRONG_DIRECTION"
    ELSE IF d > 500 /\ c >= 5 THEN "CRITICAL_DEVIATION"
    ELSE IF d > 200 /\ c >= 10 THEN "HIGH_DEVIATION"
    ELSE IF d > 150 /\ c >= 20 THEN "PROLONGED_DEVIATION"
    ELSE "MINOR_DEVIATION"

LadderRow(d, c, w, status) ==
    (probe.distance = d /\ probe.consecutive = c /\ probe.wrong_direction = w)
        => probed.deviation.status = status

\* C4: the deviation classification is the first matching rung of the ordered
\* ladder (wrong direction beyond 300 m; beyond 500 m for 5 updates; beyond
\* 200 m for 10; beyond 150 m for 20; otherwise minor, LOW and untriggered),
\* with the severities the claim names and the four rows of the boundary table.
C4_LadderFirstMatch ==
    (probe.kind = "deviation" /\ probed.done) =>
        LET r == probed.deviation
        IN  /\ r.status = LadderStatus(probe.distance, probe.consecutive,
                                       probe.wrong_direction)
            /\ r.status = "WRONG_DIRECTION" => r.severity = "CRITICAL"
            /\ r.status = "PROLONGED_DEVIATION" => r.severity = "MEDIUM"
            /\ r.status = "MINOR_DEVIATION" => (r.severity = "LOW" /\ ~r.triggered)
            /\ r.status # "MINOR_DEVIATION" => r.triggered
            /\ LadderRow(600, 5, FALSE, "CRITICAL_DEVIATION")
            /\ LadderRow(600, 4, FALSE, "MINOR_DEVIATION")
            /\ LadderRow(199, 10, FALSE, "MINOR_DEVIATION")
            /\ LadderRow(250, 10, FALSE, "HIGH_DEVIATION")

\* the row (600, 5, false) evaluated
C4_Witness ==
    /\ probe.kind = "deviation" /\ probed.done
    /\ probe.distance = 600 /\ probe.consecutive = 5 /\ ~probe.wrong_direction
    /\ probed.deviation.status = "CRITICAL_DEVIATION"

TrackedIn(rd, t) == t \in DOMAIN rd /\ ~rd[t].none

\* the step is an update of trip t's tracker: its history grew by one fix
UpdateStep(t) ==
    /\ Tracked(t) /\ TrackedIn(route_detectors', t)
    /\ Len(route_detectors'[t].gps_breadcrumbs) =
           Len(route_detectors[t].gps_breadcrumbs) + 1

LastFix(det) == det.gps_breadcrumbs[Len(det.gps_breadcrumbs)]

InsideKnownCorridor(det, fix) ==
    \E i \in 1..Len(det.route_corridors) :
        corridor_contains(det.route_corridors[i], fix)

C3_CounterStep ==
    \A t \in TripIds :
        (Tracked(t) /\ TrackedIn(route_detectors', t)) =>
            LET d == route_detectors[t]
                e == route_detectors'[t]
            IN  IF UpdateStep(t)
                THEN /\ e.consecutive_deviations = 0
                            <=> InsideKnownCorridor(e, LastFix(e).position)
                     /\ ~InsideKnownCorridor(e, LastFix(e).position)
                            => e.consecutive_deviations = d.consecutive_deviations + 1
                ELSE \/ e.consecutive_deviations = d.consecutive_deviations
                     \/ /\ lastCall'.op = "start" /\ lastCall'.trip_id = t
                        /\ e.gps_breadcrumbs = <<>> /\ e.consecutive_deviations = 0

\* C3: an update sets the consecutive-deviation counter to 0 if and only if its
\* fix lies inside some known corridor, every other update increases it by
\* exactly 1, and no other operation on the trip changes it (a tracker starts
\* at 0), so the counter is the number of off-route updates since the last
\* on-route one.
C3_CounterCountsSinceOnRoute == [][C3_CounterStep]_vars

\* two updates, the first off-route, the second on-route: the counter is reset
C3_Witness ==
    /\ Tracked("t1")
    /\ Len(route_detectors["t1"].gps_breadcrumbs) = 2
    /\ Len(route_detectors["t1"].deviation_events) = 1
    /\ route_detectors["t1"].consecutive_deviations = 0
    /\ route_detectors["t1"].route_corridors # <<>>
    /\ InsideKnownCorridor(route_detectors["t1"],
                           LastFix(route_detectors["t1"]).position)

\* C5: while a trip's tracker holds an empty route set, every assessment of the
\* trip has corridor adjustment 0, no corridor action, an untriggered corridor
\* result, final score clamp(predictive + rules), and a summary not flagged
\* anomalous.
C5_EmptyRouteSetMeansNoMonitoring ==
    ( /\ Assessed
      /\ Tracked(lastCall.trip_id)
      /\ route_detectors[lastCall.trip_id].routes = <<>>
      /\ route_detectors[lastCall.trip_id].gps_breadcrumbs # <<>> ) =>
        /\ lastCall.assessment.route.risk_adjustment = 0
        /\ lastCall.assessment.route.action = "None"
        /\ ~lastCall.assessment.route.triggered
        /\ lastCall.assessment.final_score =
              Max(0, Min(Scale, lastCall.assessment.ml_score
                                  + lastCall.assessment.rules_adj))
        /\ ~get_trip_summary(route_detectors[lastCall.trip_id]).was_anomalous

C6_RerouteStep ==
    \A t \in TripIds :
        UpdateStep(t) =>
            LET d == route_detectors[t]
                e == route_detectors'[t]
            IN  /\ lastCall'.reroute \in {"raise", "empty", "build_failed"} =>
                      /\ e.routes = d.routes
                      /\ e.route_corridors = d.route_corridors
                      /\ lastCall'.outcome = "ok"
                /\ lastCall'.reroute = "replaced" =>
                      e.route_corridors = _create_route_corridors(e.routes)

\* C6: when a re-route check fails (the provider raises, returns nothing, or
\* building the corridors fails) routes and corridors are both as before and
\* update returns normally; on success both are replaced together.
C6_FailedRerouteKeepsRoutesAndCorridors == [][C6_RerouteStep]_vars

C7_Spacing ==
    \A t \in TripIds :
        \A i \in 1..(Len(queryLog[t]) - 1) :
            queryLog[t][i + 1] - queryLog[t][i] >= 30

C7_NoEarlyQuery ==
    \A t \in TripIds :
        ( /\ UpdateStep(t)
          /\ LastFix(route_detectors'[t]).timestamp
                 - route_detectors[t].last_reroute_check < 30 )
        => queryLog'[t] = queryLog[t]

\* C7: for one tracker, any two successive directions queries (the one at
\* creation and each re-route query, failed or not) are at least 30 seconds
\* apart on the clock, and an update less than 30 seconds after the last check
\* issues no query.
C7_QueriesThirtySecondsApart == []C7_Spacing /\ [][C7_NoEarlyQuery]_vars

\* a query at creation, an update 15 s later without one, a query 30 s later
C7_Witness ==
    /\ Tracked("t1")
    /\ queryLog["t1"] = <<0, 30>>
    /\ Len(route_detectors["t1"].gps_breadcrumbs) = 2
    /\ route_detectors["t1"].gps_breadcrumbs[1].timestamp = 15

\* the registry entry of a trip, present or not
EntryOf(rd, t) == IF t \in DOMAIN rd THEN <<TRUE, rd[t]>> ELSE <<FALSE, NoDetector>>

C8_IsolationStep ==
    \A b \in TripIds :
        lastCall'.trip_id # b =>
            EntryOf(route_detectors', b) = EntryOf(route_detectors, b)

\* C8: a start, assess or end call for one trip leaves the registry entry of
\* every other trip (its breadcrumbs, deviation events, counter, routes and
\* corridors, and its presence) exactly as it was.
C8_TripsAreIsolated == [][C8_IsolationStep]_vars

\* trip t1 was just ended while trip t2 holds a tracker with a recorded fix
C8_Witness ==
    /\ lastCall.op = "end" /\ lastCall.trip_id = "t1"
    /\ ~lastCall.summary.is_none
    /\ Tracked("t2")
    /\ route_detectors["t2"].gps_breadcrumbs # <<>>

\* C10: the ids in the registry are exactly the ids started and not ended
\* since; assess adds and removes nothing.
C10_RegistryIsStartedNotEnded == DOMAIN route_detectors = started

\* the two calls run one after the other, first then second
SerialOutcome(first, second) ==
    LET det0 == NewDetector(route_detectors["t1"].routes, 0)
        u1 == update(det0, threads[first].gps, 0, 0, NotAsked)
        u2 == update(u1.det, threads[second].gps, 0, 0, NotAsked)
    IN  /\ route_detectors["t1"] = u2.det
        /\ threads[first].result = u1.result
        /\ threads[second].result = u2.result

\* C9: two concurrent assess calls for the same trip leave the tracker in a
\* state, and return results, that running them one after the other in some
\* order would produce.
C9_SameTripCallsSerialized ==
    (threads # <<>> /\ \A th \in ThreadIds : threads[th].pc = "done") =>
        SerialOutcome(1, 2) \/ SerialOutcome(2, 1)

\* the step is a call of end for trip t
EndStep(t) == lastCall'.op = "end" /\ lastCall'.trip_id = t /\ lastCall' # lastCall

C11_EndStepOk ==
    \A t \in TripIds :
        EndStep(t) =>
            /\ lastCall'.outcome = "ok"
            /\ t \notin DOMAIN route_detectors'
            /\ lastCall'.summary =
                  (IF Tracked(t) THEN get_trip_summary(route_detectors[t])
                   ELSE NullSummary)
            /\ ~Tracked(t) => lastCall'.summary.is_none
            /\ \A b \in TripIds \ {t} :
                  EntryOf(route_detectors', b) = EntryOf(route_detectors, b)

\* C11: end never fails: for an id with a tracker it removes the entry and
\* returns that tracker's summary; for an id never started, already ended or
\* started without monitoring it returns the id with a null route summary; every
\* other registry entry is unchanged.
C11_EndNeverFails == [][C11_EndStepOk]_vars

\* end was called for an id that is not in the registry (never started, or
\* its start raised) while another trip holds a tracker with a recorded fix
C11_Witness ==
    /\ lastCall.op = "end" /\ lastCall.trip_id = "t1" /\ lastCall.outcome = "ok"
    /\ lastCall.summary.is_none
    /\ "t1" \notin DOMAIN route_detectors
    /\ Tracked("t2")
    /\ route_detectors["t2"].gps_breadcrumbs # <<>>

\* C12: start without the prerequisites (API key, geo libraries) does not fail
\* and records the trip as having no monitoring; every assess call for a trip
\* without a tracker reports NO_ROUTE_MONITORING with corridor adjustment 0 and
\* fuses the predictive and rule components.
C12_NoPrerequisitesMeansNoMonitoring ==
    /\ (lastCall.op = "start" /\ (~google_api_key \/ ~_HAS_GEO_DEPS)) =>
          /\ lastCall.outcome = "ok"
          /\ lastCall.trip_id \in DOMAIN route_detectors
          /\ route_detectors[lastCall.trip_id].none
    /\ (lastCall.op = "assess" /\ ~Tracked(lastCall.trip_id)) =>
          /\ lastCall.outcome = "ok"
          /\ lastCall.assessment.route.status = "NO_ROUTE_MONITORING"
          /\ lastCall.assessment.route.risk_adjustment = 0
          /\ lastCall.assessment.final_score =
                Max(0, Min(Scale, lastCall.assessment.ml_score
                                    + lastCall.assessment.rules_adj))

\* every action identifier carried by the rules in checks
RuleActions(checks) == { checks[i].action : i \in 1..Len(checks) } \ {"None"}

\* the identifiers the triggered critical and severity rules and the corridor
\* result of the last assessment carry
ExplicitActions ==
    RuleActions(lastCall.assessment.critical_rules)
        \cup RuleActions(lastCall.assessment.severity_rules)
        \cup ({lastCall.assessment.route.action} \ {"None"})

\* C13: the action set returned by assess contains every action identifier of
\* every triggered critical rule, every triggered severity rule and the corridor
\* result (and nothing else but a default), each once.
C13_ActionsAreUnionOfTriggered ==
    Assessed =>
        /\ ExplicitActions \subseteq lastCall.assessment.actions
        /\ lastCall.assessment.actions \subseteq
              ExplicitActions \cup {"ALERT_USER", "MONITOR"}

\* C14: with no explicit action, assess supplies exactly one default keyed by
\* the final level (ALERT_USER for the top tier, MONITOR for MEDIUM, none for
\* SAFE); once a rule or the corridor result supplied an action, no default is
\* added.
C14_DefaultOnlyWithoutExplicitAction ==
    Assessed =>
        LET a == lastCall.assessment
        IN  IF ExplicitActions = {}
            THEN a.actions = (CASE a.final_level = "HIGH RISK" -> {"ALERT_USER"}
                                [] a.final_level = "MEDIUM" -> {"MONITOR"}
                                [] OTHER -> {})
            ELSE a.actions \ ExplicitActions = {}

\* C20: an assess call with speed 140, limit 50, urban, hour 23, inside a
\* high-risk zone and no whitelist or damper context returns the top tier and
\* at least two distinct actions, among them the speeding rule's immediate
\* alert and the geofence rule's zone alert, whatever the predictive score.
C20_SpeedingAtNightInZoneIsHighRisk ==
    ( /\ lastCall.op = "assess"
      /\ probe.kind = "call"
      /\ probe.trip_data.current_speed = 140
      /\ probe.context = NightInNima ) =>
        /\ lastCall.outcome = "ok"
        /\ lastCall.assessment.final_level = "HIGH RISK"
        /\ {"IMMEDIATE_ALERT", "ALERT_USER_AND_SHARE_LOCATION"}
               \subseteq lastCall.assessment.actions
        /\ Cardinality(lastCall.assessment.actions) >= 2

\* C16: two evaluations of the rule catalog with identical telemetry and
\* context yield identical aggregates (triggered rules, total adjustment,
\* actions), whatever time passed and whatever else was evaluated in between.
C16_RuleEvaluationIsPure ==
    (probe.kind = "rules" /\ probed.done) => probed.latest = probed.first

\* C17: an assess call whose telemetry lacks a feature the predictive model
\* requires fails with the missing-feature error; no default is substituted
\* for the absent feature and no assessment is produced.
C17_MissingFeatureFailsTheCall ==
    ( /\ lastCall.op = "assess"
      /\ probe.kind = "telemetry"
      /\ ~(ml_model.feature_names \subseteq probe.features.given) ) =>
        lastCall.outcome = "missing_feature"

\* the step is a call of set_fusion_weights
SetStep == lastCall'.op = "set_fusion_weights" /\ lastCall' # lastCall

\* the setter accepts exactly the pairs with accepted(sum) and stores them as
\* given; it rejects the others and leaves the stored weights alone
SetterAccepts(accepted(_)) ==
    SetStep =>
        IF accepted(lastCall'.gb_weight + lastCall'.if_weight)
        THEN /\ lastCall'.outcome = "ok"
             /\ ml_model'.gb_weight = lastCall'.gb_weight
             /\ ml_model'.if_weight = lastCall'.if_weight
        ELSE /\ lastCall'.outcome = "raise"
             /\ ml_model' = ml_model

SumsToOne(sum) == sum = WeightScale
SumsToOneWithin(sum) == Abs(sum - WeightScale) <= 10

\* an assessment was made with the weights now stored
PredictionUsesStoredWeights ==
    Assessed =>
        lastCall.assessment.ml_score =
            (ml_model.gb_weight * lastCall.assessment.gb_score
                 + ml_model.if_weight * lastCall.assessment.if_score) \div 10000

\* C18 (as stated): weights that do not sum to 1 are rejected and both stored
\* weights stay as they were; weights that sum to 1 are stored exactly as given
\* and later predictions use them.
C18_WeightsMustSumToOne ==
    [][SetterAccepts(SumsToOne)]_vars /\ []PredictionUsesStoredWeights

\* C18 (amended): weights whose sum differs from 1 by more than 0.00001 are
\* rejected and both stored weights stay as they were; weights whose sum is
\* within 0.00001 of 1 are stored exactly as given and later predictions use
\* them.
C18_WeightsMustSumToOneWithinTolerance ==
    [][SetterAccepts(SumsToOneWithin)]_vars /\ []PredictionUsesStoredWeights

\* 0.7/0.300005 was accepted and stored, then 0.6/0.6 was rejected and
\* 0.7/0.300005 is still stored
C18_Witness ==
    /\ lastCall.op = "set_fusion_weights" /\ lastCall.outcome = "raise"
    /\ lastCall.gb_weight = 600000
    /\ ml_model.gb_weight = 700000 /\ ml_model.if_weight = 300005

\* C19: the hybrid score of the predictive model lies in [0,1] for component
\* scores in [0,1] and every weight pair the setter accepted.
C19_HybridScoreInUnitInterval ==
    Assessed => lastCall.assessment.ml_score \in 0..Scale

\* C15: for a tracker that received at least one update, the summary reports
\* deviation_ratio = updates classified off-route / all updates, max_deviation =
\* the largest deviation distance recorded (0 when none), and was_anomalous
\* exactly when deviation_ratio > 0.30 or max_deviation > 1000, the boundaries
\* 0.30 and 1000 themselves not anomalous.
C15_SummaryOfUpdatedTracker ==
    ( /\ lastCall.op = "end"
      /\ probed.done
      /\ probed.updates > 0 ) =>
        LET summary == lastCall.summary
        IN  /\ ~summary.is_none
            /\ summary.deviation_ratio[1] * probed.updates
                   = probed.off_route * summary.deviation_ratio[2]
            /\ summary.deviation_ratio[2] > 0
            /\ summary.max_deviation = probed.max_distance
            /\ summary.was_anomalous <=>
                   (10 * probed.off_route > 3 * probed.updates
                        \/ probed.max_distance > 1000)

\* three of ten fixes were off the route, the farthest exactly 1000 m away:
\* the summary is not anomalous
C15_Witness ==
    /\ lastCall.op = "end"
    /\ probed.done /\ probed.updates = 10 /\ probed.off_route = 3
    /\ probed.max_distance = 1000
    /\ ~lastCall.summary.was_anomalous

\* the rule of this kind was called on the arguments under watch
CheckedKind(kind) == probed.done /\ probe.kind = kind

\* C21: the crash-pattern rule triggers exactly when the acceleration history
\* has at least 10 samples, one of its last 10 samples is strictly below -7.0
\* and the current speed is below 5; samples older than the last 10 have no
\* influence.
C21_CrashPatternWindow ==
    CheckedKind("crash") =>
        LET h == probe.history
            n == Len(h)
        IN  /\ probed.check.triggered <=>
                   ( /\ n >= 10
                     /\ \E i \in (n - 9)..n : h[i] < -70
                     /\ probe.speed < 5 )
            /\ probed.check.triggered => probed.check.rule_name = "CRASH_PATTERN"

\* twelve samples, the oldest at -10.0 and the latest at -7.1, speed 4: triggered
C21_Witness ==
    /\ CheckedKind("crash")
    /\ Len(probe.history) = 12
    /\ probe.history[1] = -100 /\ probe.history[12] = -71
    /\ probe.speed = 4
    /\ probed.check.triggered

\* the hours of a window that wraps midnight
WrappedHours(start, end) == (start..23) \cup (0..(end - 1))

\* C22: for every hour 0..23 and every position the geofence rule triggers
\* exactly when the position lies inside some zone's bounding box and the hour
\* lies inside that zone's window, a window wrapping midnight holding the hours
\* from its start to 23 and from 0 to before its end; the zone with window
\* (22,5) triggers at 22, 23 and 0..4 only.
C22_GeofenceWindowWrapsMidnight ==
    CheckedKind("geofence") =>
        /\ probed.check.triggered <=>
               \E zone \in HIGH_RISK_ZONES :
                   /\ probe.position[1] \in zone.south..zone.north
                   /\ probe.position[2] \in zone.west..zone.east
                   /\ zone.start_hour > zone.end_hour
                   /\ probe.hour \in WrappedHours(zone.start_hour, zone.end_hour)
        /\ probe.position \in {<<700, 700>>, <<600, 600>>, <<800, 800>>} =>
               (probed.check.triggered <=> probe.hour \in {22, 23, 0, 1, 2, 3, 4})
        /\ probe.position \in {<<599, 700>>, <<700, 801>>, Origin} =>
               ~probed.check.triggered

\* inside nima at hour 0: triggered
C22_Witness ==
    /\ CheckedKind("geofence")
    /\ probe.position = <<700, 700>> /\ probe.hour = 0
    /\ probed.check.triggered

\* C23: the extreme-speeding rule reports at most one tier, in priority order:
\* speed > 130, else speed - limit >= 50, else school zone with speed > 35,
\* else not triggered.
C23_SpeedingTiersInPriorityOrder ==
    CheckedKind("speeding") =>
        LET name == probed.check.rule_name
            extreme == probe.speed > 130
            excessive == probe.speed - probe.limit >= 50
            school == probe.location_type = "school_zone" /\ probe.speed > 35
        IN  /\ name = "EXTREME_SPEEDING" <=> extreme
            /\ name = "EXCESSIVE_SPEEDING" <=> (~extreme /\ excessive)
            /\ name = "SCHOOL_ZONE_SPEEDING" <=> (~extreme /\ ~excessive /\ school)
            /\ name = "None" <=> (~extreme /\ ~excessive /\ ~school)
            /\ probed.check.triggered <=> name # "None"

\* speed 131 in a school zone with limit 50 meets all three tiers: EXTREME_SPEEDING
C23_Witness ==
    /\ CheckedKind("speeding")
    /\ probe.speed = 131 /\ probe.limit = 50 /\ probe.location_type = "school_zone"
    /\ probed.check.rule_name = "EXTREME_SPEEDING"

\* the aggregate of the input under watch
Aggregate == probed.latest

\* d[key], or the default when the dict lacks the key
Get(d, key, default) == IF key \in DOMAIN d THEN d[key] ELSE default

\* C24: for every telemetry and context, missing fields replaced by their
\* defaults and empty inputs included, total_risk_adjustment is the unclamped
\* sum of the adjustments of the triggered critical, severity and correlation
\* rules, the time-of-day adjustment, the road-type and rush-hour dampers and
\* the two whitelist adjustments; untriggered rules contribute nothing.
C24_TotalIsUnclampedSum ==
    (probe.kind = "rules" /\ probed.done) =>
        LET listed == Aggregate.critical_rules \o Aggregate.severity_rules
                          \o Aggregate.correlation_rules
            speed == Get(probe.trip_data, "current_speed", 0)
            hour == Get(probe.context, "time_of_day", 12)
            limit == Get(probe.context, "speed_limit", 50)
            speeding == speed > 130 \/ speed - limit >= 50
        IN  /\ \A i \in 1..Len(listed) : listed[i].triggered
            /\ Aggregate.total_risk_adjustment =
                   SumAdjustments(listed)
                       + Aggregate.context_adjustments.time_risk.ml_adjustment
                       + Aggregate.context_adjustments.road_type.ml_score_damper
                       + Aggregate.context_adjustments.rush_hour.ml_score_damper
                       + Aggregate.whitelist_adjustments.driver_profile.ml_adjustment
                       + Aggregate.whitelist_adjustments.known_route.ml_adjustment
            /\ Aggregate.context_adjustments.time_risk.ml_adjustment =
                   (IF hour < 6 THEN 2250 ELSE IF hour < 9 THEN 150
                    ELSE IF hour < 14 THEN 0 ELSE IF hour < 17 THEN -150
                    ELSE IF hour < 20 THEN 450 ELSE IF hour < 22 THEN 750 ELSE 3300)
            /\ speeding <=>
                   \E i \in 1..Len(Aggregate.critical_rules) :
                       Aggregate.critical_rules[i].rule_name
                           \in {"EXTREME_SPEEDING", "EXCESSIVE_SPEEDING"}
            /\ (probe.trip_data = EmptyDict /\ probe.context = EmptyDict) =>
                   (listed = <<>> /\ Aggregate.total_risk_adjustment = 0)

\* speed 140 and nothing else in the telemetry, hour 23 and nothing else in the
\* context: the total is 0.5 + 0.33 = 0.83
C24_Witness ==
    /\ probe.kind = "rules" /\ probed.done
    /\ probe.trip_data = OnlySpeed /\ probe.context = OnlyHour
    /\ Aggregate.total_risk_adjustment = 8300

\* a total above 1: speed 140 at hour 23 inside the nima zone
TotalAboveOne ==
    /\ probe.kind = "rules" /\ probed.done
    /\ Aggregate.total_risk_adjustment > Scale

\* a total below 0: the whitelisted driver on an unpaved road at hour 15
TotalBelowZero ==
    /\ probe.kind = "rules" /\ probed.done
    /\ Aggregate.total_risk_adjustment < 0

\* the parts of one kind, in the order they stand in the explanation
PartsOf(kind) == SelectSeq(probed.explanation, LAMBDA part : part.kind = kind)

\* the kinds of the parts, in order
KindsOf(explanation) == [i \in 1..Len(explanation) |-> explanation[i].kind]

\* n times the same kind
Repeat(kind, n) == [i \in 1..n |-> kind]

\* C25: the explanation is the predictive-score summary, then the reason of
\* each triggered critical rule, then the route message exactly when the
\* corridor result is triggered, then the reason of each triggered severity
\* rule, then a time note exactly when the time multiplier is strictly above
\* 1.5, and last the line of the three terms and the final total.
C25_ExplanationOrder ==
    (probe.kind = "explain" /\ probed.done) =>
        LET critical == probe.rules.critical_rules
            severity == probe.rules.severity_rules
            multiplier == probe.rules.context_adjustments.time_risk.multiplier
        IN  /\ KindsOf(probed.explanation) =
                   <<"ml">> \o Repeat("critical", Len(critical))
                       \o (IF probe.route.triggered THEN <<"route">> ELSE <<>>)
                       \o Repeat("severity", Len(severity))
                       \o (IF multiplier > 15 THEN <<"time">> ELSE <<>>)
                       \o <<"final">>
            /\ PartsOf("ml") = <<Part("ml", probed.ml.level, <<probed.ml.hybrid_score>>)>>
            /\ \A i \in 1..Len(critical) :
                   PartsOf("critical")[i].text = critical[i].rule_name
            /\ \A i \in 1..Len(severity) :
                   PartsOf("severity")[i].text = severity[i].rule_name
            /\ probe.route.triggered => PartsOf("route")[1].text = probe.route.status
            /\ PartsOf("final")[1].terms =
                   <<probed.final, probed.ml.hybrid_score,
                     probe.rules.total_risk_adjustment, probe.route.risk_adjustment>>

\* two critical rules, a triggered route result, two severity rules, hour 23
C25_Witness ==
    /\ probe.kind = "explain" /\ probed.done
    /\ KindsOf(probed.explanation) =
           <<"ml", "critical", "critical", "route", "severity", "severity", "time",
             "final">>

\* hour 20, multiplier exactly 1.5: no time note
NoTimeNoteAtOneAndAHalf ==
    /\ probe.kind = "explain" /\ probed.done
    /\ probe.rules.context_adjustments.time_risk.multiplier = 15
    /\ PartsOf("time") = <<>>

\* what the last update returned
Returned == lastCall.assessment.route

\* C26: in a run of consecutive updates outside every corridor, none of them
\* wrong-direction, an update farther than 500 m is CRITICAL_DEVIATION exactly
\* from the 5th update of the run on, one at a distance in (200, 500] is
\* HIGH_DEVIATION exactly from the 10th on, one in (150, 200] is
\* PROLONGED_DEVIATION exactly from the 20th on; an on-route update restarts
\* the count.
C26_EscalationByConsecutiveUpdates ==
    (lastCall.op = "update" /\ probed.done /\ probed.run > 0 /\ ~probed.wrong) =>
        LET distance == Returned.deviation_distance
        IN  /\ distance > 500 =>
                   (Returned.status = "CRITICAL_DEVIATION" <=> probed.run >= 5)
            /\ (200 < distance /\ distance <= 500) =>
                   (Returned.status = "HIGH_DEVIATION" <=> probed.run >= 10)
            /\ (150 < distance /\ distance <= 200) =>
                   (Returned.status = "PROLONGED_DEVIATION" <=> probed.run >= 20)
            /\ Returned.status \in {"CRITICAL_DEVIATION", "HIGH_DEVIATION",
                                     "PROLONGED_DEVIATION", "MINOR_DEVIATION"}

\* after nine fixes 250 m off the route and one at the destination, the tenth
\* fix of the new run is the first HIGH_DEVIATION
C26_Witness ==
    /\ lastCall.op = "update" /\ probed.done /\ ~probed.wrong
    /\ probed.broke /\ probed.run = 10
    /\ Len(route_detectors["t1"].gps_breadcrumbs) = 20
    /\ Returned.deviation_distance = 250
    /\ Returned.status = "HIGH_DEVIATION"

\* the direction from p to q as a vector; due north when p = q, whose bearing
\* is 0
Towards(p, q) == IF p = q THEN <<1, 0>> ELSE <<q[1] - p[1], q[2] - p[2]>>

\* the smaller arc between two directions exceeds 90 degrees exactly when
\* their scalar product is negative
MoreThanQuarterTurn(v, w) == v[1] * w[1] + v[2] * w[2] < 0

\* C27: for an off-route update, wrong direction is flagged exactly when the
\* trip has at least two breadcrumbs and the heading from the previous
\* breadcrumb to the current fix differs from the bearing to the destination by
\* strictly more than 90 degrees; the first update of a trip is never
\* WRONG_DIRECTION and a difference of exactly 90 is not flagged.
C27_WrongDirectionBeyondQuarterTurn ==
    (lastCall.op = "update" /\ probed.done /\ probed.run > 0) =>
        LET crumbs == route_detectors["t1"].gps_breadcrumbs
            fix == crumbs[Len(crumbs)].position
            away == /\ Len(crumbs) >= 2
                    /\ MoreThanQuarterTurn(Towards(crumbs[Len(crumbs) - 1].position, fix),
                                           Towards(fix, Destination))
        IN  /\ wrong_direction(crumbs, fix) <=> away
            /\ Returned.deviation_distance > 300 =>
                   (Returned.status = "WRONG_DIRECTION" <=> away)
            /\ Len(crumbs) = 1 => Returned.status # "WRONG_DIRECTION"

\* from the destination to a fix 600 m past it: WRONG_DIRECTION
C27_Witness ==
    /\ lastCall.op = "update" /\ probed.done /\ probed.run = 1 /\ probed.broke
    /\ Returned.deviation_distance = 600
    /\ Returned.status = "WRONG_DIRECTION"

\* standing 600 m past the destination, a quarter turn exactly: not flagged
StandingIsNotWrongDirection ==
    /\ lastCall.op = "update" /\ probed.done /\ probed.run = 2 /\ ~probed.wrong
    /\ Returned.deviation_distance = 600
    /\ Returned.status = "MINOR_DEVIATION"

\* C28: in every reachable state of a trip's tracker the list of known routes
\* and the list of known corridors have the same length, so the index of a
\* containing corridor is a valid index of a known route.
C28_RoutesAndCorridorsSameLength ==
    \A t \in TripIds :
        Tracked(t) =>
            /\ Len(route_detectors[t].routes) = Len(route_detectors[t].route_corridors)
            /\ \A fix \in GpsFixes :
                   is_within_any_corridor(route_detectors[t], fix)
                       <= Len(route_detectors[t].routes)

\* the step is an assess call for trip t
AssessStep(t) == lastCall'.op = "assess" /\ lastCall'.trip_id = t /\ now' = now

\* an assess call that reached the tracker appends one breadcrumb, and one
\* deviation event exactly when the update was classified off-route; no other
\* step of the trip touches either list
C29_HistoryStep ==
    \A t \in TripIds :
        (Tracked(t) /\ TrackedIn(route_detectors', t)
             /\ ~(lastCall'.op = "start" /\ lastCall'.trip_id = t)) =>
            LET d == route_detectors[t]
                e == route_detectors'[t]
                result == lastCall'.assessment.route
                off == /\ lastCall'.outcome = "ok"
                       /\ result.status \notin {"ON_PRIMARY_ROUTE", "ON_ALTERNATIVE_ROUTE"}
            IN  IF AssessStep(t) /\ lastCall'.outcome # "missing_feature"
                THEN /\ Len(e.gps_breadcrumbs) = Len(d.gps_breadcrumbs) + 1
                     /\ SubSeq(e.gps_breadcrumbs, 1, Len(d.gps_breadcrumbs))
                            = d.gps_breadcrumbs
                     /\ LastFix(e).timestamp = now
                     /\ e.deviation_events =
                            IF off
                            THEN Append(d.deviation_events,
                                        [timestamp |-> now,
                                         distance |-> result.deviation_distance,
                                         position |-> LastFix(e).position])
                            ELSE d.deviation_events
                ELSE /\ e.gps_breadcrumbs = d.gps_breadcrumbs
                     /\ e.deviation_events = d.deviation_events

\* no more deviation events than breadcrumbs; the summary's ratio is in [0,1]
C29_EventsWithinCrumbs ==
    \A t \in TripIds :
        Tracked(t) =>
            LET det == route_detectors[t]
                ratio == get_trip_summary(det).deviation_ratio
            IN  /\ Len(det.deviation_events) <= Len(det.gps_breadcrumbs)
                /\ 0 <= ratio[1] /\ ratio[1] <= ratio[2] /\ ratio[2] > 0

\* C29: the breadcrumb history holds one entry per update received, in arrival
\* order, the deviation event log one entry per update classified off-route,
\* and neither shrinks during the trip; hence the deviation events never
\* outnumber the breadcrumbs and the summary's deviation ratio is in [0,1].
C29_OneCrumbPerUpdate == [][C29_HistoryStep]_vars /\ []C29_EventsWithinCrumbs

\* two updates, the first on the route and the second off it
C29_Witness ==
    /\ Tracked("t1")
    /\ Len(route_detectors["t1"].gps_breadcrumbs) = 2
    /\ Len(route_detectors["t1"].deviation_events) = 1
    /\ route_detectors["t1"].deviation_events[1].timestamp
           = route_detectors["t1"].gps_breadcrumbs[2].timestamp
    /\ lastCall.op = "assess"

\* the step is an assess call that the predictive model rejected
RejectedStep ==
    /\ lastCall'.op = "assess" /\ lastCall'.outcome = "missing_feature"
    /\ now' = now

C30_RejectedStepKeepsState ==
    RejectedStep =>
        /\ route_detectors' = route_detectors
        /\ started' = started
        /\ queryLog' = queryLog
        /\ ml_model' = ml_model
        /\ \A t \in TripIds, gps \in GpsFixes, resp \in RerouteAnswers :
               Tracked(t) =>
                   update(route_detectors'[t], gps, now', now', resp)
                       = update(route_detectors[t], gps, now, now, resp)

\* C30: an assess call that fails because the predictive model rejects its
\* input leaves the trip's tracker (breadcrumbs, deviation events, counter,
\* routes, corridors) and the trip registry exactly as before the call, so a
\* later valid assess call behaves as if the failed call had not been made.
C30_RejectedAssessChangesNothing == [][C30_RejectedStepKeepsState]_vars

\* a call was rejected for a trip whose tracker already holds a fix
C30_Witness ==
    /\ lastCall.op = "assess" /\ lastCall.outcome = "missing_feature"
    /\ Tracked("t1")
    /\ Len(route_detectors["t1"].gps_breadcrumbs) = 1

====
